---- MODULE Spec2Model ----
(***************************************************************************)
(* A model of the dispatch kernel of koishi-core:                          *)
(*   - the scope algebra of Context (context.ts),                          *)
(*   - the identifier syntax of ContextScope (stringify / parse),          *)
(*   - the hook registry and its three dispatch modes.                     *)
(* JavaScript arrays are sequences, strings are strings, and a nullable     *)
(* array is either null (<<>>) or Arr(a) (<<a>>).                          *)
(***************************************************************************)
EXTENDS Integers, Sequences, FiniteSets, TLC

VARIABLES
  A,        \* SpecAlgebra/SpecIdent: the receiver context (this)
  B,        \* SpecAlgebra: the argument context (ctx)
  meta,     \* the event (Meta) that is matched
  ident,    \* SpecIdent: the identifier string handed to parse
  result,   \* the outcome of the last operation applied
  hooks,    \* SpecHooks: app._hooks[name], the ordered list of [context, callback]
  disp,     \* SpecHooks: the dispatch in flight (parallelize / serialize / bail)
  disp2,       \* SpecOnce: a second dispatch in flight, overlapping the first
  onceLog,     \* SpecOnce: per wrapper of once, its calls and its unsubscription
  middlewares, \* SpecMiddleware: app._hooks[MIDDLEWARE_EVENT]
  mwLog,       \* SpecMiddleware: what the calls of the wrappers have done
  commands,    \* SpecCommands: app._commands, the commands in order of creation
  commandMap,  \* SpecCommands: app._commandMap, name -> command
  lastCall,    \* SpecCommands: the outcome of the last registration call
  exec,        \* SpecExecute: the invocation of Command.execute in flight
  app,         \* SpecDispose: app._commands, app._shortcutMap, app._shortcuts
  obs          \* SpecObserve: the caches, the storage and the events in flight

\* the variables of the command registry and of the later specifications
laterVars == <<disp2, onceLog, middlewares, mwLog, commands, commandMap, lastCall, exec,
               app, obs>>

vars == <<A, B, meta, ident, result, hooks, disp, laterVars>>

(***************************************************************************)
(* Bounds of the model.                                                    *)
(***************************************************************************)
\* ids that occur in id lists and events are 1..MaxId
MaxId == 2

Ids == 1 .. MaxId

\* app._hooks[name] holds at most MaxHooks entries
MaxHooks == 3

\* the listener functions that plugins register are 1..MaxListeners
MaxListeners == 1

\* at most MaxOnce wrappers made by once() are alive at a time
MaxOnce == 1

(***************************************************************************)
(* JavaScript values.                                                      *)
(***************************************************************************)
null == <<>>

Arr(a) == <<a>>

\* Array.prototype.includes
includes(arr, x) == \E i \in 1 .. Len(arr) : arr[i] = x

RECURSIVE dedupe(_)
\* Array.from(new Set(arr)): the first occurrence of each element, in order
dedupe(arr) ==
  IF arr = <<>> THEN <<>>
  ELSE LET front == dedupe(SubSeq(arr, 1, Len(arr) - 1))
           last  == arr[Len(arr)]
       IN IF includes(front, last) THEN front ELSE Append(front, last)

\* koishi-utils
union(array1, array2) == dedupe(array1 \o array2)

intersection(array1, array2) == SelectSeq(array1, LAMBDA item : includes(array2, item))

difference(array1, array2) == SelectSeq(array1, LAMBDA item : ~includes(array2, item))

containArray(array1, array2) == \A i \in 1 .. Len(array2) : includes(array1, array2[i])

(***************************************************************************)
(* Characters and decimal numbers.                                         *)
(***************************************************************************)
Digits == <<"0", "1", "2", "3", "4", "5", "6", "7", "8", "9">>

\* s[i - 1]: the one-character string at a position
charAt(s, i) == SubSeq(s, i, i)

isDigit(c) == \E d \in 1 .. 10 : Digits[d] = c

digitValue(c) == (CHOOSE d \in 1 .. 10 : Digits[d] = c) - 1

RECURSIVE numberToString(_)
\* String(n) for a non-negative integer
numberToString(n) ==
  IF n < 10 THEN Digits[n + 1]
  ELSE numberToString(n \div 10) \o Digits[(n % 10) + 1]

RECURSIVE stringToNumber(_)
\* +s for a string of decimal digits
stringToNumber(s) ==
  IF s = "" THEN 0
  ELSE 10 * stringToNumber(SubSeq(s, 1, Len(s) - 1)) + digitValue(charAt(s, Len(s)))

RECURSIVE split(_, _)
\* String.prototype.split(sep) for a one-character separator
split(s, sep) ==
  IF \A i \in 1 .. Len(s) : charAt(s, i) # sep THEN <<s>>
  ELSE LET k == CHOOSE i \in 1 .. Len(s) :
                  charAt(s, i) = sep /\ \A j \in 1 .. (i - 1) : charAt(s, j) # sep
       IN <<SubSeq(s, 1, k - 1)>> \o split(SubSeq(s, k + 1, Len(s)), sep)

RECURSIVE join(_, _)
\* Array.prototype.join(sep) over an array of strings
join(parts, sep) ==
  IF parts = <<>> THEN ""
  ELSE IF Len(parts) = 1 THEN parts[1]
  ELSE parts[1] \o sep \o join(Tail(parts), sep)

startsWith(s, prefix) ==
  Len(s) >= Len(prefix) /\ SubSeq(s, 1, Len(prefix)) = prefix

(***************************************************************************)
(* ContextScope: three subscopes [include, exclude], one per context type. *)
(***************************************************************************)
\* meta.ts: the enum of context types; index 1..3 stands for 0..2
contextTypes == <<"user", "group", "discuss">>

Dims == 1 .. 3

\* contextTypes[type]: the index of a type name
typeIndex(type) == CHOOSE d \in Dims : contextTypes[d] = type

stringify(scope) ==
  LET segment(index) ==
        LET include == scope[index][1]
            exclude == scope[index][2]
            sign    == IF include # null THEN "+" ELSE "-"
            idList  == IF include # null THEN include[1] ELSE exclude[1]
            texts   == [i \in 1 .. Len(idList) |-> numberToString(idList[i])]
        IN contextTypes[index] \o sign \o join(texts, ",")
      mapped == [index \in Dims |-> segment(index)]
  IN join(SelectSeq(mapped, LAMBDA a : a # ""), ";")

noopScope == << <<Arr(<<>>), null>>, <<Arr(<<>>), null>>, <<Arr(<<>>), null>> >>

noopIdentifier == stringify(noopScope)

\* /^(user|group|discuss)(?:([+-])(\d+(?:,\d+)*))?$/.exec(segment):
\* null, or the capture [type, sign, list] with "" for a group that did not take part
isIdList(s) ==
  LET parts == split(s, ",")
  IN \A i \in 1 .. Len(parts) :
       /\ parts[i] # ""
       /\ \A j \in 1 .. Len(parts[i]) : isDigit(charAt(parts[i], j))

execSegment(segment) ==
  LET types == {d \in Dims : startsWith(segment, contextTypes[d])}
  IN IF types = {} THEN null
     ELSE LET d    == CHOOSE x \in types : TRUE
              rest == SubSeq(segment, Len(contextTypes[d]) + 1, Len(segment))
              list == SubSeq(rest, 2, Len(rest))
          IN IF rest = ""
               THEN Arr([type |-> contextTypes[d], sign |-> "", list |-> ""])
             ELSE IF charAt(rest, 1) \in {"+", "-"} /\ list # "" /\ isIdList(list)
               THEN Arr([type |-> contextTypes[d], sign |-> charAt(rest, 1), list |-> list])
             ELSE null

\* a parse with the signs confused
parsedSubscopeSwapped(sign, idList) ==
  IF sign = "-" THEN <<Arr(idList), null>> ELSE <<null, Arr(idList)>>

\* scope[contextTypes[type]] = sign === '+' ? [idList, null] : [null, idList]
parsedSubscope(sign, idList) ==
  IF sign = "+" THEN <<Arr(idList), null>> ELSE <<null, Arr(idList)>>

RECURSIVE parseSegments(_, _)
\* the forEach of parse: the scope after the segments, or the error thrown
parseSegments(segments, scope) ==
  IF segments = <<>> THEN [ok |-> TRUE, scope |-> scope]
  ELSE LET capture == execSegment(segments[1])
       IN IF capture = null
            THEN [ok |-> FALSE, scope |-> noopScope]
          ELSE LET type   == capture[1].type
                   sign   == IF capture[1].sign = "" THEN "-" ELSE capture[1].sign
                   list   == capture[1].list
                   texts  == IF list # "" THEN split(list, ",") ELSE <<>>
                   idList == [i \in 1 .. Len(texts) |-> stringToNumber(texts[i])]
                   sub    == parsedSubscope(sign, idList)
               IN parseSegments(Tail(segments),
                                [scope EXCEPT ![typeIndex(type)] = sub])

\* ContextScope.parse: [ok |-> TRUE, scope] or [ok |-> FALSE] for INVALID_IDENTIFIER
parse(identifier) == parseSegments(split(identifier, ";"), noopScope)

(***************************************************************************)
(* Context: {identifier, _scope} and its combinators.                      *)
(***************************************************************************)
\* app.createContext(scope): the context of a scope, named by its identifier
createContext(scope) == [identifier |-> stringify(scope), scope |-> scope]

\* an inverse that keeps the exclude list in the exclude slot
inverseKeepsSlot(this) ==
  createContext([index \in Dims |->
    LET include == this.scope[index][1]
        exclude == this.scope[index][2]
    IN IF include # null THEN <<null, Arr(include[1])>>
                         ELSE <<null, Arr(exclude[1])>>])

inverse(this) ==
  createContext([index \in Dims |->
    LET include == this.scope[index][1]
        exclude == this.scope[index][2]
    IN IF include # null THEN <<null, Arr(include[1])>>
                         ELSE <<Arr(exclude[1]), Arr(<<>>)>>])

plus(this, ctx) ==
  createContext([index \in Dims |->
    LET include1 == this.scope[index][1]
        exclude1 == this.scope[index][2]
        include2 == ctx.scope[index][1]
        exclude2 == ctx.scope[index][2]
    IN IF include1 # null
         THEN IF include2 # null
                THEN <<Arr(union(include1[1], include2[1])), null>>
                ELSE <<null, Arr(difference(exclude2[1], include1[1]))>>
         ELSE <<null, IF include2 # null
                        THEN Arr(difference(exclude1[1], include2[1]))
                        ELSE Arr(intersection(exclude1[1], exclude2[1]))>>])

\* a minus that answers two exclude lists with an exclude list
minusExcludeForm(this, ctx) ==
  createContext([index \in Dims |->
    LET include1 == this.scope[index][1]
        exclude1 == this.scope[index][2]
        include2 == ctx.scope[index][1]
        exclude2 == ctx.scope[index][2]
    IN IF include1 # null
         THEN <<IF include2 # null
                  THEN Arr(difference(include1[1], include2[1]))
                  ELSE Arr(intersection(include1[1], exclude2[1])), null>>
         ELSE IF include2 # null
                THEN <<null, Arr(union(include2[1], exclude1[1]))>>
                ELSE <<null, Arr(difference(exclude2[1], exclude1[1]))>>])

minus(this, ctx) ==
  createContext([index \in Dims |->
    LET include1 == this.scope[index][1]
        exclude1 == this.scope[index][2]
        include2 == ctx.scope[index][1]
        exclude2 == ctx.scope[index][2]
    IN IF include1 # null
         THEN <<IF include2 # null
                  THEN Arr(difference(include1[1], include2[1]))
                  ELSE Arr(intersection(include1[1], exclude2[1])), null>>
         ELSE IF include2 # null
                THEN <<null, Arr(union(include2[1], exclude1[1]))>>
                ELSE <<Arr(difference(exclude2[1], exclude1[1])), null>>])

\* an intersect that subtracts in the wrong direction when the argument lists
\* the included ids
intersectSwapped(this, ctx) ==
  createContext([index \in Dims |->
    LET include1 == this.scope[index][1]
        exclude1 == this.scope[index][2]
        include2 == ctx.scope[index][1]
        exclude2 == ctx.scope[index][2]
    IN IF include1 # null
         THEN <<IF include2 # null
                  THEN Arr(intersection(include1[1], include2[1]))
                  ELSE Arr(difference(include1[1], exclude2[1])), null>>
         ELSE IF include2 # null
                THEN <<Arr(difference(exclude1[1], include2[1])), null>>
                ELSE <<null, Arr(union(exclude1[1], exclude2[1]))>>])

intersect(this, ctx) ==
  createContext([index \in Dims |->
    LET include1 == this.scope[index][1]
        exclude1 == this.scope[index][2]
        include2 == ctx.scope[index][1]
        exclude2 == ctx.scope[index][2]
    IN IF include1 # null
         THEN <<IF include2 # null
                  THEN Arr(intersection(include1[1], include2[1]))
                  ELSE Arr(difference(include1[1], exclude2[1])), null>>
         ELSE IF include2 # null
                THEN <<Arr(difference(include2[1], exclude1[1])), null>>
                ELSE <<null, Arr(union(exclude1[1], exclude2[1]))>>])

\* a Meta: present = FALSE is a missing event object (null);
\* ctxType = "" is an event without $ctxType
match(this, m) ==
  IF ~m.present \/ m.ctxType = "" THEN TRUE
  ELSE LET include == this.scope[typeIndex(m.ctxType)][1]
           exclude == this.scope[typeIndex(m.ctxType)][2]
       IN IF include # null THEN includes(include[1], m.ctxId)
                            ELSE ~includes(exclude[1], m.ctxId)

\* a contain that compares two exclude lists the wrong way round
containReversed(this, ctx) ==
  \A index \in Dims :
    LET include1 == this.scope[index][1]
        exclude1 == this.scope[index][2]
        include2 == ctx.scope[index][1]
        exclude2 == ctx.scope[index][2]
    IN IF include1 # null
         THEN include2 # null /\ containArray(include1[1], include2[1])
         ELSE IF include2 # null
                THEN Len(intersection(include2[1], exclude1[1])) = 0
                ELSE containArray(exclude1[1], exclude2[1])

contain(this, ctx) ==
  \A index \in Dims :
    LET include1 == this.scope[index][1]
        exclude1 == this.scope[index][2]
        include2 == ctx.scope[index][1]
        exclude2 == ctx.scope[index][2]
    IN IF include1 # null
         THEN include2 # null /\ containArray(include1[1], include2[1])
         ELSE IF include2 # null
                THEN Len(intersection(include2[1], exclude1[1])) = 0
                ELSE containArray(exclude2[1], exclude1[1])

(***************************************************************************)
(* Inputs: the scopes, events and identifiers the operations are applied   *)
(* to.                                                                     *)
(***************************************************************************)
\* id lists: the arrays over Ids without repetition, in any order
IdLists ==
  UNION {{l \in [1 .. n -> Ids] : \A i, j \in 1 .. n : i # j => l[i] # l[j]} :
         n \in 0 .. MaxId}

Subscopes == {<<Arr(l), null>> : l \in IdLists} \cup {<<null, Arr(l)>> : l \in IdLists}

noneSub == <<Arr(<<>>), null>>

allSub == <<null, Arr(<<>>)>>

\* a scope that has subscope s in dimension d and the same base elsewhere
focusScope(d, s, base) == [index \in Dims |-> IF index = d THEN s ELSE base]

ScopeInputs ==
  {focusScope(d, s, base) : d \in Dims, s \in Subscopes, base \in {noneSub, allSub}}

\* the scopes that are written to identifiers: the subscopes elsewhere may
\* also hold an id
IdentScopes ==
  {focusScope(d, s, base) :
     d \in Dims, s \in Subscopes,
     base \in {noneSub, allSub, <<Arr(<<1>>), null>>, <<null, Arr(<<1>>)>>}}

\* events carry ids of the lists and one id that is in no list
EventIds == 1 .. (MaxId + 1)

Meta(type, id) == [present |-> TRUE, ctxType |-> type, ctxId |-> id]

nullMeta == [present |-> FALSE, ctxType |-> "", ctxId |-> 0]

untaggedMeta == [present |-> TRUE, ctxType |-> "", ctxId |-> 0]

TaggedEvents == {Meta(contextTypes[d], id) : d \in Dims, id \in EventIds}

noResult == [op |-> "none", ctx |-> createContext(noopScope), value |-> FALSE]

\* the scope string of the scenario: user+1,2;group-3
ScenarioIdentifier == "user+1,2;group-3"

ScenarioEvents ==
  {Meta(contextTypes[1], 1), Meta(contextTypes[1], 2), Meta(contextTypes[1], 5),
   Meta(contextTypes[2], 7), Meta(contextTypes[2], 3)}

\* identifiers written by hand
HandIdentifiers ==
  {ScenarioIdentifier, "user", "user+", "group-1;group+2", "", "discuss-2,1"}

(***************************************************************************)
(* The hook registry: app._hooks[name] for one event name.  An entry is    *)
(* [context, callback]; a callback is a listener function of a plugin      *)
(* (kind "plain") or the wrapper closure made by once (kind "once").       *)
(***************************************************************************)
Listener(l) == [kind |-> "plain", id |-> l]

Wrapper(w) == [kind |-> "once", id |-> w]

Hook(context, callback) == [context |-> context, callback |-> callback]

\* the contexts that plugins register on: one user, and the null scope
userContext == createContext(<< <<Arr(<<1>>), null>>, noneSub, noneSub >>)

noopContext == createContext(noopScope)

HookContexts == {userContext, noopContext}

\* the events that are dispatched: no event object, an event without
\* $ctxType, and events of two users
DispatchMetas ==
  {nullMeta, untaggedMeta, Meta(contextTypes[1], 1), Meta(contextTypes[1], 2)}

\* splice(index, 1)
removeAt(list, index) ==
  SubSeq(list, 1, index - 1) \o SubSeq(list, index + 1, Len(list))

\* findIndex(([context, callback]) => context === this && callback === listener):
\* 0 when there is none
findIndex(list, this, listener) ==
  IF \E i \in 1 .. Len(list) : list[i] = Hook(this, listener)
    THEN CHOOSE i \in 1 .. Len(list) :
           /\ list[i] = Hook(this, listener)
           /\ \A j \in 1 .. (i - 1) : list[j] # Hook(this, listener)
    ELSE 0

\* a prepend that appends
prependListenerLast(list, this, listener) == Append(list, Hook(this, listener))

addListener(list, this, listener) == Append(list, Hook(this, listener))

prependListener(list, this, listener) == <<Hook(this, listener)>> \o list

removeListener(list, this, listener) ==
  LET index == findIndex(list, this, listener)
  IN IF index >= 1 THEN removeAt(list, index) ELSE list

\* a wrapper of once that does not unsubscribe
afterCallKeeps(list, hook) == list

\* what calling a hook's callback does to the list before the listener runs:
\* the wrapper of once calls unsubscribe(), a plain listener leaves the list alone
afterCall(list, hook) ==
  IF hook.callback.kind = "once"
    THEN removeListener(list, hook.context, hook.callback)
    ELSE list

(***************************************************************************)
(* Dispatch.  A dispatch record holds the iterator position idx of the     *)
(* for-of loop over the live list, the hooks it has invoked (invoked[k])   *)
(* and what has become of each call (tasks[k]):                            *)
(*   "threw"    the listener threw synchronously                           *)
(*   "pending"  it returned a promise that has not settled                 *)
(*   "truthy" / "falsy"  it returned (or its promise fulfilled with)       *)
(*              a truthy / falsy value                                     *)
(*   "rejected" its promise rejected                                       *)
(* status is that of the dispatch call itself and result the call k whose  *)
(* value or error it settled with (0: undefined).  start is the list when  *)
(* the dispatch began.  Plugins register and remove listeners between      *)
(* dispatches; while one runs only the wrappers of once change the list.   *)
(***************************************************************************)
idle == [mode |-> "idle", meta |-> nullMeta, start |-> <<>>, idx |-> 1,
         invoked |-> <<>>, tasks |-> <<>>, status |-> "idle", result |-> 0]

begin(mode, m, list) == [idle EXCEPT !.mode = mode, !.meta = m, !.start = list,
                                     !.status = "running"]

called(d, hook, outcome) ==
  [d EXCEPT !.invoked = Append(@, hook), !.tasks = Append(@, outcome)]

Fulfilled == {"truthy", "falsy"}

\* a dispatch loop without its filter
survivesAlways(hook, m) == TRUE

\* if (!context.match(meta)) continue
survives(hook, m) == match(hook.context, m)

RECURSIVE parallelizeLoop(_, _, _)
\* for (const [context, callback] of hooks) { if (!context.match(meta)) continue;
\*   tasks.push(callback.apply(meta, args)) }
\* outcome[i] is what the call made at iterator position i does
parallelizeLoop(list, d, outcome) ==
  IF d.idx > Len(list) THEN [hooks |-> list, disp |-> d]
  ELSE LET hook == list[d.idx]
           next == [d EXCEPT !.idx = @ + 1]
       IN IF ~survives(hook, d.meta) THEN parallelizeLoop(list, next, outcome)
          ELSE IF outcome[d.idx] = "threw"
            THEN [hooks |-> afterCall(list, hook),
                  disp  |-> [called(next, hook, "threw") EXCEPT
                               !.status = "rejected", !.result = Len(d.tasks) + 1]]
          ELSE parallelizeLoop(afterCall(list, hook),
                               called(next, hook, outcome[d.idx]), outcome)

\* an aggregate that waits for every task before it rejects (Promise.allSettled)
promiseAllSettled(d, k) ==
  IF d.status # "running" THEN d
  ELSE IF \E i \in 1 .. Len(d.tasks) : d.tasks[i] = "pending" THEN d
  ELSE IF \E i \in 1 .. Len(d.tasks) : d.tasks[i] = "rejected"
    THEN [d EXCEPT !.status = "rejected",
                   !.result = CHOOSE i \in 1 .. Len(d.tasks) : d.tasks[i] = "rejected"]
  ELSE [d EXCEPT !.status = "resolved"]

\* await Promise.all(tasks), seen when a task settles (or when none is pending):
\* it rejects with the first rejection and fulfils when every task has fulfilled
promiseAll(d, k) ==
  IF d.status # "running" THEN d
  ELSE IF k > 0 /\ d.tasks[k] = "rejected"
    THEN [d EXCEPT !.status = "rejected", !.result = k]
  ELSE IF \A i \in 1 .. Len(d.tasks) : d.tasks[i] \in Fulfilled
    THEN [d EXCEPT !.status = "resolved"]
  ELSE d

parallelize(list, m, outcome) ==
  LET looped == parallelizeLoop(list, begin("parallelize", m, list), outcome)
  IN [hooks |-> looped.hooks, disp |-> promiseAll(looped.disp, 0)]

RECURSIVE serializeLoop(_, _, _)
\* the for-of loop of serialize up to its next await (or its end):
\* outcome is what the next call does
serializeLoop(list, d, outcome) ==
  IF d.idx > Len(list) THEN [hooks |-> list, disp |-> [d EXCEPT !.status = "resolved"]]
  ELSE LET hook == list[d.idx]
           next == [d EXCEPT !.idx = @ + 1]
       IN IF ~survives(hook, d.meta) THEN serializeLoop(list, next, outcome)
          ELSE IF outcome = "threw"
            THEN [hooks |-> afterCall(list, hook),
                  disp  |-> [called(next, hook, "threw") EXCEPT
                               !.status = "rejected", !.result = Len(d.tasks) + 1]]
          ELSE [hooks |-> afterCall(list, hook), disp |-> called(next, hook, "pending")]

serialize(list, m, outcome) == serializeLoop(list, begin("serialize", m, list), outcome)

\* const result = await callback.apply(this, args); if (result) return result
\* value is what the awaited call settles with, outcome what the next call does
serializeResume(list, d, value, outcome) ==
  LET k       == Len(d.tasks)
      settled == [d EXCEPT !.tasks[k] = value]
  IN IF value = "rejected"
       THEN [hooks |-> list, disp |-> [settled EXCEPT !.status = "rejected", !.result = k]]
     ELSE IF value = "truthy"
       THEN [hooks |-> list, disp |-> [settled EXCEPT !.status = "resolved", !.result = k]]
     ELSE serializeLoop(list, settled, outcome)

RECURSIVE bailLoop(_, _, _)
\* for (...) { if (!context.match(meta)) continue;
\*   const result = callback.apply(this, args); if (result) return result }
bailLoop(list, d, outcome) ==
  IF d.idx > Len(list) THEN [hooks |-> list, disp |-> [d EXCEPT !.status = "resolved"]]
  ELSE LET hook == list[d.idx]
           next == [d EXCEPT !.idx = @ + 1]
           k    == Len(d.tasks) + 1
       IN IF ~survives(hook, d.meta) THEN bailLoop(list, next, outcome)
          ELSE IF outcome[d.idx] = "threw"
            THEN [hooks |-> afterCall(list, hook),
                  disp  |-> [called(next, hook, "threw") EXCEPT
                               !.status = "rejected", !.result = k]]
          ELSE IF outcome[d.idx] = "truthy"
            THEN [hooks |-> afterCall(list, hook),
                  disp  |-> [called(next, hook, "truthy") EXCEPT
                               !.status = "resolved", !.result = k]]
          ELSE bailLoop(afterCall(list, hook), called(next, hook, "falsy"), outcome)

bail(list, m, outcome) == bailLoop(list, begin("bail", m, list), outcome)

(***************************************************************************)
(* The parts of the state a specification leaves at rest.                 *)
(***************************************************************************)
OnceAtRest == disp2 = idle /\ onceLog = <<>>

MiddlewareAtRest == middlewares = <<>> /\ mwLog = <<>>

\* no call has been made on the registry
noCall == [op |-> "none", context |-> createContext(noopScope), target |-> 0,
           args |-> <<>>, error |-> "", returned |-> 0]

CommandsAtRest == commands = <<>> /\ commandMap = {} /\ lastCall = noCall

ExecuteAtRest == exec = <<>>

AppAtRest == app = <<>>

ObserveAtRest == obs = <<>>

(***************************************************************************)
(* SpecAlgebra: the combinators applied to a pair of contexts.             *)
(***************************************************************************)
InitAlgebra ==
  /\ \E d \in Dims, s1 \in Subscopes, s2 \in Subscopes, b1 \in {noneSub, allSub},
        b2 \in {noneSub, allSub} :
       /\ A = createContext(focusScope(d, s1, b1))
       /\ B = createContext(focusScope(d, s2, b2))
  /\ meta \in TaggedEvents
  /\ ident = ""
  /\ result = noResult
  /\ hooks = <<>>
  /\ disp = idle
  /\ OnceAtRest /\ MiddlewareAtRest /\ CommandsAtRest /\ ExecuteAtRest /\ AppAtRest /\ ObserveAtRest

Inverse ==
  /\ result.op = "none"
  /\ result' = [op |-> "inverse", ctx |-> inverse(A), value |-> FALSE]
  /\ UNCHANGED <<laterVars, A, B, meta, ident, hooks, disp>>

\* A.inverse().inverse()
InverseAgain ==
  /\ result.op = "inverse"
  /\ result' = [op |-> "inverse2", ctx |-> inverse(result.ctx), value |-> FALSE]
  /\ UNCHANGED <<laterVars, A, B, meta, ident, hooks, disp>>

Plus ==
  /\ result.op = "none"
  /\ result' = [op |-> "plus", ctx |-> plus(A, B), value |-> FALSE]
  /\ UNCHANGED <<laterVars, A, B, meta, ident, hooks, disp>>

Minus ==
  /\ result.op = "none"
  /\ result' = [op |-> "minus", ctx |-> minus(A, B), value |-> FALSE]
  /\ UNCHANGED <<laterVars, A, B, meta, ident, hooks, disp>>

Intersect ==
  /\ result.op = "none"
  /\ result' = [op |-> "intersect", ctx |-> intersect(A, B), value |-> FALSE]
  /\ UNCHANGED <<laterVars, A, B, meta, ident, hooks, disp>>

Contain ==
  /\ result.op = "none"
  /\ result' = [op |-> "contain", ctx |-> B, value |-> contain(A, B)]
  /\ UNCHANGED <<laterVars, A, B, meta, ident, hooks, disp>>

NextAlgebra == Inverse \/ InverseAgain \/ Plus \/ Minus \/ Intersect \/ Contain

SpecAlgebra == InitAlgebra /\ [][NextAlgebra]_vars

(***************************************************************************)
(* SpecIdent: a scope is written to its identifier and identifiers are     *)
(* parsed into contexts.                                                   *)
(***************************************************************************)
InitIdent ==
  /\ A \in {createContext(s) : s \in IdentScopes}
  /\ B = createContext(noopScope)
  /\ meta \in TaggedEvents \cup ScenarioEvents
  /\ ident \in HandIdentifiers
  /\ result = noResult
  /\ hooks = <<>>
  /\ disp = idle
  /\ OnceAtRest /\ MiddlewareAtRest /\ CommandsAtRest /\ ExecuteAtRest /\ AppAtRest /\ ObserveAtRest

Stringify ==
  /\ result.op = "none"
  /\ ident' = stringify(A.scope)
  /\ result' = [op |-> "stringify", ctx |-> A, value |-> FALSE]
  /\ UNCHANGED <<laterVars, A, B, meta, hooks, disp>>

\* parse(ident) and the context created from the parsed scope
Parse ==
  /\ result.op \in {"none", "stringify"}
  /\ LET parsed == parse(ident)
     IN result' = [op    |-> IF result.op = "none" THEN "parse" ELSE "roundtrip",
                   ctx   |-> createContext(parsed.scope),
                   value |-> parsed.ok]
  /\ UNCHANGED <<laterVars, A, B, meta, ident, hooks, disp>>

NextIdent == Stringify \/ Parse

SpecIdent == InitIdent /\ [][NextIdent]_vars

(***************************************************************************)
(* SpecHooks: plugins register and remove listeners, events are            *)
(* dispatched, promises settle.                                            *)
(***************************************************************************)
InitHooks ==
  /\ A = createContext(noopScope)
  /\ B = createContext(noopScope)
  /\ meta = nullMeta
  /\ ident = ""
  /\ result = noResult
  /\ hooks = <<>>
  /\ disp = idle
  /\ OnceAtRest /\ MiddlewareAtRest /\ CommandsAtRest /\ ExecuteAtRest /\ AppAtRest /\ ObserveAtRest

Listeners == {Listener(l) : l \in 1 .. MaxListeners}

\* the wrappers that the list or the dispatch record still refer to
liveWrappers ==
  {w \in 1 .. MaxOnce :
     \/ \E i \in 1 .. Len(hooks) : hooks[i].callback = Wrapper(w)
     \/ \E i \in 1 .. Len(disp.invoked) : disp.invoked[i].callback = Wrapper(w)
     \/ \E i \in 1 .. Len(disp.start) : disp.start[i].callback = Wrapper(w)}

\* context.on(name, listener)
On(this, listener) ==
  /\ disp.status = "idle"
  /\ Len(hooks) < MaxHooks
  /\ hooks' = addListener(hooks, this, listener)
  /\ UNCHANGED disp
  /\ UNCHANGED <<laterVars, A, B, meta, ident, result>>

\* context.before(name, listener)
Before(this, listener) ==
  /\ disp.status = "idle"
  /\ Len(hooks) < MaxHooks
  /\ hooks' = prependListener(hooks, this, listener)
  /\ UNCHANGED disp
  /\ UNCHANGED <<laterVars, A, B, meta, ident, result>>

\* context.once(name, listener): on(name, wrapper) with a new wrapper closure
Once(this) ==
  /\ disp.status = "idle"
  /\ Len(hooks) < MaxHooks
  /\ \E w \in (1 .. MaxOnce) \ liveWrappers :
       /\ \A v \in (1 .. MaxOnce) \ liveWrappers : w <= v
       /\ hooks' = addListener(hooks, this, Wrapper(w))
  /\ UNCHANGED disp
  /\ UNCHANGED <<laterVars, A, B, meta, ident, result>>

\* context.off(name, listener), also the unsubscribe function on() returned
Off(this, listener) ==
  /\ disp.status = "idle"
  /\ hooks' = removeListener(hooks, this, listener)
  /\ hooks' # hooks
  /\ UNCHANGED disp
  /\ UNCHANGED <<laterVars, A, B, meta, ident, result>>

Parallelize(m) ==
  /\ disp.status = "idle"
  /\ \E outcome \in [1 .. Len(hooks) -> {"threw", "pending"}] :
       LET r == parallelize(hooks, m, outcome)
       IN hooks' = r.hooks /\ disp' = r.disp
  /\ UNCHANGED <<laterVars, A, B, meta, ident, result>>

\* a promise returned to parallelize settles
Settle(k, value) ==
  /\ disp.mode = "parallelize"
  /\ k \in 1 .. Len(disp.tasks)
  /\ disp.tasks[k] = "pending"
  /\ disp' = promiseAll([disp EXCEPT !.tasks[k] = value], k)
  /\ UNCHANGED <<laterVars, A, B, meta, ident, result, hooks>>

Serialize(m) ==
  /\ disp.status = "idle"
  /\ \E outcome \in {"threw", "pending"} :
       LET r == serialize(hooks, m, outcome)
       IN hooks' = r.hooks /\ disp' = r.disp
  /\ UNCHANGED <<laterVars, A, B, meta, ident, result>>

\* the call that serialize awaits settles and the loop goes on
SerializeResume(value) ==
  /\ disp.mode = "serialize"
  /\ disp.status = "running"
  /\ \E outcome \in {"threw", "pending"} :
       LET r == serializeResume(hooks, disp, value, outcome)
       IN hooks' = r.hooks /\ disp' = r.disp
  /\ UNCHANGED <<laterVars, A, B, meta, ident, result>>

Bail(m) ==
  /\ disp.status = "idle"
  /\ \E outcome \in [1 .. Len(hooks) -> {"threw", "truthy", "falsy"}] :
       LET r == bail(hooks, m, outcome)
       IN hooks' = r.hooks /\ disp' = r.disp
  /\ UNCHANGED <<laterVars, A, B, meta, ident, result>>

\* the caller has the outcome of the dispatch; the record of it is dropped
Return ==
  /\ disp.status \in {"resolved", "rejected"}
  /\ disp' = idle
  /\ UNCHANGED <<laterVars, A, B, meta, ident, result, hooks>>

NextHooks ==
  \/ \E c \in HookContexts, l \in Listeners : On(c, l)
  \/ \E c \in HookContexts, l \in Listeners : Before(c, l)
  \/ \E c \in HookContexts : Once(c)
  \/ \E c \in HookContexts, l \in Listeners \cup {Wrapper(w) : w \in 1 .. MaxOnce} :
       Off(c, l)
  \/ \E m \in DispatchMetas : Parallelize(m)
  \/ \E k \in 1 .. MaxHooks, value \in {"falsy", "rejected"} : Settle(k, value)
  \/ \E m \in DispatchMetas : Serialize(m)
  \/ \E value \in {"truthy", "falsy", "rejected"} : SerializeResume(value)
  \/ \E m \in DispatchMetas : Bail(m)
  \/ Return

SpecHooks == InitHooks /\ [][NextHooks]_vars

(***************************************************************************)
(* Claims about the scope algebra (SpecAlgebra).                           *)
(***************************************************************************)
metaDim == typeIndex(meta.ctxType)

\* C1: for a tagged event e, A.plus(B) matches e iff A or B matches it,
\* A.minus(B) iff A matches and B does not, A.intersect(B) iff both match
CombinatorsMatch ==
  /\ result.op = "plus" =>
       (match(result.ctx, meta) <=> (match(A, meta) \/ match(B, meta)))
  /\ result.op = "minus" =>
       (match(result.ctx, meta) <=> (match(A, meta) /\ ~match(B, meta)))
  /\ result.op = "intersect" =>
       (match(result.ctx, meta) <=> (match(A, meta) /\ match(B, meta)))

\* C1 witness: a minus of two exclude-form subscopes that matches the event
CombinatorsMatchWitness ==
  /\ result.op = "minus"
  /\ A.scope[metaDim][1] = null
  /\ B.scope[metaDim][1] = null
  /\ B.scope[metaDim][2][1] # <<>>
  /\ match(result.ctx, meta)

\* C2: A.inverse() matches a tagged event iff A does not, and
\* A.inverse().inverse() matches it iff A does
InverseNegates ==
  /\ result.op = "inverse" => (match(result.ctx, meta) <=> ~match(A, meta))
  /\ result.op = "inverse2" => (match(result.ctx, meta) <=> match(A, meta))

\* C2 witness: the double inverse of an exclude-form subscope, on an excluded id
InverseNegatesWitness ==
  /\ result.op = "inverse2"
  /\ A.scope[metaDim][1] = null
  /\ ~match(A, meta)
  /\ ~match(result.ctx, meta)

\* C3: when A.contain(B) is true, every tagged event B matches is matched by A
ContainImpliesMatch ==
  (result.op = "contain" /\ result.value) => (match(B, meta) => match(A, meta))

\* C3 witness: contain is true of two exclude-form subscopes with non-empty
\* lists, and B matches the event
ContainImpliesMatchWitness ==
  /\ result.op = "contain"
  /\ result.value
  /\ A.scope[metaDim][1] = null
  /\ B.scope[metaDim][1] = null
  /\ A.scope[metaDim][2][1] # <<>>
  /\ A.scope[metaDim][2][1] # B.scope[metaDim][2][1]
  /\ match(B, meta)

(***************************************************************************)
(* Claims about identifiers (SpecIdent).                                   *)
(***************************************************************************)
\* C4: parse(stringify(S)) succeeds and returns S, for every scope S, the
\* ones with empty id lists (such as the null scope) included
RoundTrip ==
  result.op = "roundtrip" => (result.value /\ result.ctx.scope = A.scope)

\* the id lists a hand-written segment may hold
WrittenLists == IdLists \cup {<<1, 2>>, <<3>>, <<2, 1>>, <<1>>, <<2>>}

\* the text of a segment: type, sign, ids joined by commas
segmentText(type, sign, list) ==
  type \o sign \o join([i \in 1 .. Len(list) |-> numberToString(list[i])], ",")

\* the segment of the identifier that decides the event's dimension is the
\* last one of that type
decides(identifier, text) ==
  LET segments == split(identifier, ";")
  IN \E i \in 1 .. Len(segments) :
       /\ segments[i] = text
       /\ \A j \in (i + 1) .. Len(segments) : ~startsWith(segments[j], meta.ctxType)

\* C5: a context built from a parsed scope string matches a tagged event iff
\* the id is in the list of a dimension given with '+', iff it is not in the list
\* of a dimension given with '-'; user+1,2;group-3 matches (user,1), (user,2)
\* and (group,7), and neither (user,5) nor (group,3)
ParsedScopeMatches ==
  (result.op = "parse" /\ result.value) =>
    /\ \A list \in WrittenLists :
         /\ decides(ident, segmentText(meta.ctxType, "+", list)) =>
              (match(result.ctx, meta) <=> includes(list, meta.ctxId))
         /\ decides(ident, segmentText(meta.ctxType, "-", list)) =>
              (match(result.ctx, meta) <=> ~includes(list, meta.ctxId))
    /\ (ident = ScenarioIdentifier /\ meta \in ScenarioEvents) =>
         (match(result.ctx, meta) <=>
            meta \in {Meta(contextTypes[1], 1), Meta(contextTypes[1], 2),
                      Meta(contextTypes[2], 7)})

\* the scenario string must parse
ScenarioParses ==
  (result.op = "parse" /\ ident = ScenarioIdentifier) => result.value

\* C5 witness: the scenario scope has been parsed and matches (group, 7)
ParsedScopeMatchesWitness ==
  /\ result.op = "parse"
  /\ result.value
  /\ ident = ScenarioIdentifier
  /\ meta = Meta(contextTypes[2], 7)
  /\ match(result.ctx, meta)

(***************************************************************************)
(* Claims about dispatch (SpecHooks).                                      *)
(***************************************************************************)
elements(arr) == {arr[i] : i \in 1 .. Len(arr)}

untagged(m) == ~m.present \/ m.ctxType = ""

\* the matching rule of a subscope, as the data model states it
matchesRule(context, m) ==
  \/ untagged(m)
  \/ LET sub == context.scope[typeIndex(m.ctxType)]
     IN IF sub[1] # null THEN m.ctxId \in elements(sub[1][1])
                         ELSE m.ctxId \notin elements(sub[2][1])

\* the hooks of the list the dispatch started with that its event matches
survivors == SelectSeq(disp.start, LAMBDA hook : matchesRule(hook.context, disp.meta))

\* C6: a dispatch invokes a hook only if its context matches the event; for an
\* event without a dimension tag (or no event object) no hook the loop comes to
\* is filtered out, whatever its context (the null scope included)
ScopeIsolation ==
  /\ \A k \in 1 .. Len(disp.invoked) : matchesRule(disp.invoked[k].context, disp.meta)
  /\ (disp.status # "idle" /\ untagged(disp.meta)) =>
       Len(disp.invoked) = disp.idx - 1

\* C6 witness: an event of user 1 was dispatched over a list that holds a hook
\* of the null scope, and only a hook of the user's context was invoked; and
\* the hook of the null scope ahead of it was filtered out
ScopeIsolationWitness ==
  /\ disp.meta = Meta(contextTypes[1], 1)
  /\ disp.status = "resolved"
  /\ Len(disp.start) >= 2
  /\ disp.start[1].context = noopContext
  /\ Len(disp.invoked) = 1
  /\ disp.invoked[1].context = userContext

\* C7 as stated: parallelize never settles while a handler it invoked is pending
ParallelizeSettlesLast ==
  (disp.mode = "parallelize" /\ disp.status \in {"resolved", "rejected"}) =>
    \A k \in 1 .. Len(disp.tasks) : disp.tasks[k] # "pending"

\* C7 amended: parallelize fulfils only when every handler's operation has
\* fulfilled; as soon as a handler throws or its operation rejects, it rejects
\* with that failure, whether or not other handlers are still pending
ParallelizeFailsFast ==
  disp.mode = "parallelize" =>
    /\ disp.status = "resolved" =>
         \A k \in 1 .. Len(disp.tasks) : disp.tasks[k] \in Fulfilled
    /\ disp.status = "rejected" =>
         /\ disp.result \in 1 .. Len(disp.tasks)
         /\ disp.tasks[disp.result] \in {"rejected", "threw"}
    /\ disp.status = "running" =>
         /\ \A k \in 1 .. Len(disp.tasks) : disp.tasks[k] \in Fulfilled \cup {"pending"}
         /\ \E k \in 1 .. Len(disp.tasks) : disp.tasks[k] = "pending"

\* C7 witness: parallelize has rejected with a handler's rejection while
\* another handler is still pending
ParallelizeFailsFastWitness ==
  /\ disp.mode = "parallelize"
  /\ disp.status = "rejected"
  /\ disp.tasks[disp.result] = "rejected"
  /\ \E k \in 1 .. Len(disp.tasks) : disp.tasks[k] = "pending"

\* C8: parallelize invokes every hook that was in the list when it started and
\* whose context matches the event, exactly once - also when a hook before it
\* removes itself or throws
EverySurvivorInvoked ==
  disp.mode = "parallelize" => disp.invoked = survivors

\* C9: serialize and bail invoke the matching hooks in list order, one at a
\* time; they return the first truthy result and invoke no hook after it; with
\* no truthy result they resolve to undefined after invoking all of them
FirstResultDispatch ==
  disp.mode \in {"serialize", "bail"} =>
    /\ Len(disp.invoked) <= Len(survivors)
    /\ \A k \in 1 .. Len(disp.invoked) : disp.invoked[k] = survivors[k]
    /\ \A k \in 1 .. (Len(disp.tasks) - 1) : disp.tasks[k] = "falsy"
    /\ (disp.status = "resolved" /\ disp.result > 0) =>
         (disp.result = Len(disp.tasks) /\ disp.tasks[disp.result] = "truthy")
    /\ (disp.status = "resolved" /\ disp.result = 0) =>
         /\ disp.invoked = survivors
         /\ \A k \in 1 .. Len(disp.tasks) : disp.tasks[k] = "falsy"

\* the calls made are hooks of the starting list, taken in its order
invokedInOrder ==
  \E pos \in [1 .. Len(disp.invoked) -> 1 .. Len(disp.start)] :
    /\ \A k \in 1 .. Len(disp.invoked) : disp.start[pos[k]] = disp.invoked[k]
    /\ \A j, k \in 1 .. Len(disp.invoked) : j < k => pos[j] < pos[k]

\* C10: on puts a handler after every handler already registered, before puts
\* it ahead of them, off leaves the order of the remaining handlers as it was,
\* and serialize and bail invoke handlers in the order of the list
RegistrationOrder ==
  /\ [][/\ \A c \in HookContexts, l \in Listeners :
             /\ On(c, l) => hooks' = hooks \o <<Hook(c, l)>>
             /\ Before(c, l) => hooks' = <<Hook(c, l)>> \o hooks
        /\ \A c \in HookContexts : Once(c) => SubSeq(hooks', 1, Len(hooks)) = hooks
        /\ \A c \in HookContexts, l \in Listeners \cup {Wrapper(w) : w \in 1 .. MaxOnce} :
             Off(c, l) =>
               \E i \in 1 .. Len(hooks) :
                 /\ hooks[i] = Hook(c, l)
                 /\ hooks' = SubSeq(hooks, 1, i - 1) \o SubSeq(hooks, i + 1, Len(hooks))
       ]_vars
  /\ [](disp.mode \in {"serialize", "bail"} => invokedInOrder)

\* C10 witness: a list of three different hooks, the first of them put there by
\* before, was dispatched by serialize, which invoked them in the list's order
RegistrationOrderWitness ==
  /\ disp.mode = "serialize"
  /\ disp.status = "resolved"
  /\ disp.start = <<Hook(noopContext, Listener(1)), Hook(userContext, Wrapper(1)),
                    Hook(userContext, Listener(1))>>
  /\ disp.invoked = <<Hook(noopContext, Listener(1)), Hook(userContext, Wrapper(1))>>

(***************************************************************************)
(* SpecOnce: handlers registered with once, under dispatches that overlap. *)
(* Two dispatches may be in flight (disp, disp2): a serialize is suspended *)
(* at its await while the other dispatch runs over the same live list.     *)
(* onceLog[w] is the history of the w-th wrapper made by once: the context *)
(* it was registered on, how often it was called (counted up to MaxCalls)  *)
(* and whether its unsubscribe function ran before any call.  Plugins      *)
(* register between dispatches and unsubscribe at any time.                *)
(***************************************************************************)
\* once() is called at most MaxWrappers times
MaxWrappers == 2

\* the hook list of SpecOnce holds at most MaxOnceHooks entries
MaxOnceHooks == 2

\* calls of a wrapper are counted up to MaxCalls
MaxCalls == 2

\* the events dispatched in SpecOnce: one that the context of the hooks
\* matches and one that it does not match
OnceMetas == {Meta(contextTypes[1], 1), Meta(contextTypes[1], 2)}

slot(i) == IF i = 1 THEN disp ELSE disp2

setSlot(i, d) ==
  IF i = 1 THEN disp' = d /\ UNCHANGED disp2
           ELSE disp2' = d /\ UNCHANGED disp

\* the number of entries of a list of hooks that are the wrapper w
RECURSIVE countCalls(_, _)
countCalls(list, w) ==
  IF list = <<>> THEN 0
  ELSE (IF Head(list).callback = Wrapper(w) THEN 1 ELSE 0) + countCalls(Tail(list), w)

\* the log after a dispatch went from record d to record e
logCalls(log, d, e) ==
  LET new == SubSeq(e.invoked, Len(d.invoked) + 1, Len(e.invoked))
  IN [w \in 1 .. Len(log) |->
        LET n == log[w].calls + countCalls(new, w)
        IN [log[w] EXCEPT !.calls = IF n > MaxCalls THEN MaxCalls ELSE n]]

InitOnce ==
  /\ A = createContext(noopScope)
  /\ B = createContext(noopScope)
  /\ meta = nullMeta
  /\ ident = ""
  /\ result = noResult
  /\ hooks = <<>>
  /\ disp = idle
  /\ disp2 = idle
  /\ onceLog = <<>>
  /\ MiddlewareAtRest /\ CommandsAtRest /\ ExecuteAtRest /\ AppAtRest /\ ObserveAtRest

onceRest == <<A, B, meta, ident, result, middlewares, mwLog, commands, commandMap,
              lastCall, exec, app, obs>>

\* context.on(name, listener) of a plain listener
OnceOn(this, listener) ==
  /\ disp.status = "idle" /\ disp2.status = "idle"
  /\ Len(hooks) < MaxOnceHooks
  /\ hooks' = addListener(hooks, this, listener)
  /\ UNCHANGED <<disp, disp2, onceLog, onceRest>>

\* const unsubscribe = this.on(name, wrapper); return unsubscribe
OnceOnce(this) ==
  /\ disp.status = "idle" /\ disp2.status = "idle"
  /\ Len(hooks) < MaxOnceHooks
  /\ Len(onceLog) < MaxWrappers
  /\ hooks' = addListener(hooks, this, Wrapper(Len(onceLog) + 1))
  /\ onceLog' = Append(onceLog, [context |-> this, calls |-> 0, unsubscribed |-> FALSE])
  /\ UNCHANGED <<disp, disp2, onceRest>>

\* the function once() returned is called: () => this.off(name, wrapper)
OnceUnsubscribe(w) ==
  /\ w \in 1 .. Len(onceLog)
  /\ hooks' = removeListener(hooks, onceLog[w].context, Wrapper(w))
  /\ onceLog' = [onceLog EXCEPT ![w].unsubscribed = @ \/ onceLog[w].calls = 0]
  /\ UNCHANGED <<disp, disp2, onceRest>>

OnceSerialize(i, m) ==
  /\ slot(i).status = "idle"
  /\ \E outcome \in {"threw", "pending"} :
       LET r == serialize(hooks, m, outcome)
       IN /\ hooks' = r.hooks
          /\ setSlot(i, r.disp)
          /\ onceLog' = logCalls(onceLog, idle, r.disp)
  /\ UNCHANGED onceRest

OnceSerializeResume(i, value) ==
  /\ slot(i).mode = "serialize"
  /\ slot(i).status = "running"
  /\ \E outcome \in {"threw", "pending"} :
       LET r == serializeResume(hooks, slot(i), value, outcome)
       IN /\ hooks' = r.hooks
          /\ setSlot(i, r.disp)
          /\ onceLog' = logCalls(onceLog, slot(i), r.disp)
  /\ UNCHANGED onceRest

\* bail and parallelize run their loop without suspension, here while the
\* other dispatch is suspended
OnceBail(i, m) ==
  /\ slot(i).status = "idle"
  /\ \E outcome \in [1 .. Len(hooks) -> {"threw", "truthy", "falsy"}] :
       LET r == bail(hooks, m, outcome)
       IN /\ hooks' = r.hooks
          /\ setSlot(i, r.disp)
          /\ onceLog' = logCalls(onceLog, idle, r.disp)
  /\ UNCHANGED onceRest

OnceParallelize(i, m) ==
  /\ slot(i).status = "idle"
  /\ \E outcome \in [1 .. Len(hooks) -> {"threw", "pending"}] :
       LET r == parallelize(hooks, m, outcome)
       IN /\ hooks' = r.hooks
          /\ setSlot(i, r.disp)
          /\ onceLog' = logCalls(onceLog, idle, r.disp)
  /\ UNCHANGED onceRest

\* a promise returned to parallelize settles
OnceSettle(i, k, value) ==
  /\ slot(i).mode = "parallelize"
  /\ k \in 1 .. Len(slot(i).tasks)
  /\ slot(i).tasks[k] = "pending"
  /\ setSlot(i, promiseAll([slot(i) EXCEPT !.tasks[k] = value], k))
  /\ UNCHANGED <<hooks, onceLog, onceRest>>

\* the caller has the outcome of the dispatch; the record of it is dropped
OnceReturn(i) ==
  /\ slot(i).status \in {"resolved", "rejected"}
  /\ setSlot(i, idle)
  /\ UNCHANGED <<hooks, onceLog, onceRest>>

\* the first dispatch is a serialize; the one that overlaps it is of any mode
NextOnce ==
  \/ OnceOn(userContext, Listener(1))
  \/ OnceOnce(userContext)
  \/ \E w \in 1 .. MaxWrappers : OnceUnsubscribe(w)
  \/ \E i \in 1 .. 2, m \in OnceMetas : OnceSerialize(i, m)
  \/ \E i \in 1 .. 2, value \in {"truthy", "falsy", "rejected"} : OnceSerializeResume(i, value)
  \/ \E m \in OnceMetas : OnceBail(2, m)
  \/ \E m \in OnceMetas : OnceParallelize(2, m)
  \/ \E k \in 1 .. MaxOnceHooks, value \in {"falsy", "rejected"} : OnceSettle(2, k, value)
  \/ \E i \in 1 .. 2 : OnceReturn(i)

SpecOnce == InitOnce /\ [][NextOnce]_vars

(***************************************************************************)
(* Claims about once (SpecOnce).                                           *)
(***************************************************************************)
registered(w) == \E i \in 1 .. Len(hooks) : hooks[i].callback = Wrapper(w)

\* C11: a handler registered with once is invoked at most once over any
\* sequence of dispatches, overlapping ones included; from its first
\* invocation on its entry is not in the hook list; and when its unsubscribe
\* function is called before any firing it is never invoked
OnceFiresOnce ==
  \A w \in 1 .. Len(onceLog) :
    /\ onceLog[w].calls <= 1
    /\ onceLog[w].calls >= 1 => ~registered(w)
    /\ onceLog[w].unsubscribed => onceLog[w].calls = 0 /\ ~registered(w)

\* C11 witness: a serialize began over a list holding the wrapper for an event
\* its context matches and was suspended ahead of it; the other dispatch
\* fired the wrapper meanwhile; the first one has gone on to its end without
\* calling it
OnceFiresOnceWitness ==
  /\ Len(onceLog) >= 1
  /\ onceLog[1].calls = 1
  /\ disp.mode = "serialize"
  /\ disp.status = "resolved"
  /\ \E k \in 1 .. Len(disp.start) :
       /\ disp.start[k].callback = Wrapper(1)
       /\ match(disp.start[k].context, disp.meta)
  /\ \A k \in 1 .. Len(disp.invoked) : disp.invoked[k].callback # Wrapper(1)
  /\ \E k \in 1 .. Len(disp2.invoked) : disp2.invoked[k].callback = Wrapper(1)

(***************************************************************************)
(* SpecMiddleware: onceMiddleware.  middlewares is the hook list of the    *)
(* reserved event Context.MIDDLEWARE_EVENT.  mwLog[w] is the history of    *)
(* the w-th wrapper made by onceMiddleware: the context and the session    *)
(* identifier it closed over ("" for undefined) and, for each call of it,  *)
(* the session of the event, what it did and whether it was still in the   *)
(* list afterwards.                                                        *)
(***************************************************************************)
\* onceMiddleware() is called at most MaxOnceMiddlewares times
MaxOnceMiddlewares == 2

\* a wrapper is called at most MaxDeliveries times
MaxDeliveries == 2

\* the middleware list holds at most MaxMiddlewares entries
MaxMiddlewares == 2

\* meta.ts getSessionId(meta): the session identity of an event
getSessionId(m) == numberToString(m.ctxId) \o m.ctxType

OnceMiddlewareWrapper(w) == [kind |-> "onceMiddleware", id |-> w]

anyContext == createContext(<<allSub, allSub, allSub>>)

MiddlewareContexts == {userContext, anyContext}

MiddlewareMetas == {untaggedMeta, Meta(contextTypes[1], 1), Meta(contextTypes[1], 2)}

\* the events handed to onceMiddleware: none, or one of user 1
RegisteringMetas == {nullMeta, Meta(contextTypes[1], 1)}

\* a wrapper that does not look at the session
listenerAnySession(list, this, w, identifier, m) ==
  [middlewares |-> removeListener(list, this, OnceMiddlewareWrapper(w)),
   did         |-> "middleware"]

\* const listener = async (meta, next) => {
\*   if (identifier && getSessionId(meta) !== identifier) return next()
\*   this.removeMiddleware(listener)
\*   return middleware(meta, next) }
listener(list, this, w, identifier, m) ==
  IF identifier # "" /\ getSessionId(m) # identifier
    THEN [middlewares |-> list, did |-> "next"]
    ELSE [middlewares |-> removeListener(list, this, OnceMiddlewareWrapper(w)),
          did         |-> "middleware"]

InitMiddleware ==
  /\ A = createContext(noopScope)
  /\ B = createContext(noopScope)
  /\ meta = nullMeta
  /\ ident = ""
  /\ result = noResult
  /\ hooks = <<>>
  /\ disp = idle
  /\ middlewares = <<>>
  /\ mwLog = <<>>
  /\ OnceAtRest /\ CommandsAtRest /\ ExecuteAtRest /\ AppAtRest /\ ObserveAtRest

middlewareRest == <<A, B, meta, ident, result, hooks, disp, disp2, onceLog, commands,
                    commandMap, lastCall, exec, app, obs>>

\* context.middleware(middleware)
Middleware(this) ==
  /\ Len(middlewares) < MaxMiddlewares
  /\ middlewares' = addListener(middlewares, this, Listener(1))
  /\ UNCHANGED <<mwLog, middlewareRest>>

\* context.onceMiddleware(middleware, meta): m without event object is a call
\* without meta
OnceMiddleware(this, m) ==
  /\ Len(middlewares) < MaxMiddlewares
  /\ Len(mwLog) < MaxOnceMiddlewares
  /\ LET identifier == IF m.present THEN getSessionId(m) ELSE ""
     IN /\ middlewares' = prependListener(middlewares, this,
                                          OnceMiddlewareWrapper(Len(mwLog) + 1))
        /\ mwLog' = Append(mwLog, [context |-> this, identifier |-> identifier,
                                   calls |-> <<>>])
  /\ UNCHANGED middlewareRest

\* the function onceMiddleware() returned is called
RemoveOnceMiddleware(w) ==
  /\ w \in 1 .. Len(mwLog)
  /\ middlewares' = removeListener(middlewares, mwLog[w].context, OnceMiddlewareWrapper(w))
  /\ middlewares' # middlewares
  /\ UNCHANGED <<mwLog, middlewareRest>>

\* the middleware chain of an event comes to the wrapper w and calls it: the
\* chain calls the functions that are registered on a context matching the event
Deliver(w, m) ==
  /\ w \in 1 .. Len(mwLog)
  /\ Len(mwLog[w].calls) < MaxDeliveries
  /\ \E i \in 1 .. Len(middlewares) :
       middlewares[i] = Hook(mwLog[w].context, OnceMiddlewareWrapper(w))
  /\ match(mwLog[w].context, m)
  /\ LET r == listener(middlewares, mwLog[w].context, w, mwLog[w].identifier, m)
     IN /\ middlewares' = r.middlewares
        /\ mwLog' = [mwLog EXCEPT ![w].calls =
                       Append(@, [session |-> getSessionId(m),
                                  did     |-> r.did,
                                  stays   |-> \E i \in 1 .. Len(r.middlewares) :
                                                r.middlewares[i].callback =
                                                  OnceMiddlewareWrapper(w)])]
  /\ UNCHANGED middlewareRest

NextMiddleware ==
  \/ Middleware(anyContext)
  \/ \E c \in MiddlewareContexts, m \in RegisteringMetas : OnceMiddleware(c, m)
  \/ \E w \in 1 .. MaxOnceMiddlewares : RemoveOnceMiddleware(w)
  \/ \E w \in 1 .. MaxOnceMiddlewares, m \in MiddlewareMetas : Deliver(w, m)

SpecMiddleware == InitMiddleware /\ [][NextMiddleware]_vars

(***************************************************************************)
(* Claims about onceMiddleware (SpecMiddleware).                           *)
(***************************************************************************)
\* C12: a wrapper of onceMiddleware registered with a session event calls the
\* continuation, does not run the middleware and stays registered on every
\* event of another session; on the first event of its own session it runs
\* the middleware and is no longer registered; the middleware runs at most once
OnceMiddlewareSession ==
  \A w \in 1 .. Len(mwLog) :
    LET calls == mwLog[w].calls
    IN /\ mwLog[w].identifier # "" =>
            \A k \in 1 .. Len(calls) :
              IF calls[k].session # mwLog[w].identifier
                THEN calls[k].did = "next" /\ calls[k].stays
                ELSE calls[k].did = "middleware" /\ ~calls[k].stays
       /\ Cardinality({k \in 1 .. Len(calls) : calls[k].did = "middleware"}) <= 1

\* C12 witness: a wrapper registered with a session event passed on an event
\* of another session and then ran on an event of its own
OnceMiddlewareSessionWitness ==
  /\ Len(mwLog) >= 1
  /\ mwLog[1].identifier = getSessionId(Meta(contextTypes[1], 1))
  /\ Len(mwLog[1].calls) = 2
  /\ mwLog[1].calls[1].did = "next"
  /\ mwLog[1].calls[2].did = "middleware"

(***************************************************************************)
(* SpecCommands: the command registry.  commands[c] is the c-th Command    *)
(* object created (app._commands); parent is 0 for null and children and   *)
(* parents are named by these numbers.  commandMap is app._commandMap as   *)
(* the set of its <<name, command>> entries.  lastCall is the last call    *)
(* made on the registry and the error it threw ("" for none).  The config  *)
(* and the declaration of a command do not enter the registry's structure  *)
(* and are left out.                                                       *)
(***************************************************************************)
\* at most MaxCommands commands are created
MaxCommands == 3

\* a command has at most MaxAliases entries in _aliases
MaxAliases == 2

\* app._commandMap[name]: 0 for undefined
lookup(map, name) ==
  IF \E entry \in map : entry[1] = name
    THEN (CHOOSE entry \in map : entry[1] = name)[2]
    ELSE 0

\* app._commandMap[name] = command
put(map, name, command) == {entry \in map : entry[1] # name} \cup {<<name, command>>}

\* String.prototype.toLowerCase over the letters that occur in the inputs
toLowerCase(s) ==
  LET lower(c) == IF c = "A" THEN "a" ELSE IF c = "B" THEN "b" ELSE c
      F[i \in 0 .. Len(s)] == IF i = 0 THEN "" ELSE F[i - 1] \o lower(charAt(s, i))
  IN F[Len(s)]

\* const [path] = rawName.split(' ', 1)
pathOf(rawName) ==
  IF \A i \in 1 .. Len(rawName) : charAt(rawName, i) # " " THEN rawName
  ELSE LET k == CHOOSE i \in 1 .. Len(rawName) :
                  charAt(rawName, i) = " " /\ \A j \in 1 .. (i - 1) : charAt(rawName, j) # " "
       IN SubSeq(rawName, 1, k - 1)

\* path.split(/(?=[\\./])/): a new segment begins before every \ . and /
\* but the first character
RECURSIVE splitSegments(_)
splitSegments(path) ==
  LET marks == {i \in 2 .. Len(path) : charAt(path, i) \in {"\\", ".", "/"}}
  IN IF marks = {} THEN <<path>>
     ELSE LET k == CHOOSE i \in marks : \A j \in marks : j <= i
          IN Append(splitSegments(SubSeq(path, 1, k - 1)), SubSeq(path, k, Len(path)))

\* a _registerAlias that takes the name over
registerAliasTakesOver(reg, this, name) ==
  LET lower == toLowerCase(name)
  IN [commands   |-> [reg.commands EXCEPT ![this].aliases = Append(@, lower)],
      commandMap |-> put(reg.commandMap, lower, this),
      error      |-> ""]

\* Command._registerAlias(name) on the command this
registerAlias(reg, this, name) ==
  LET lower    == toLowerCase(name)
      pushed   == [reg.commands EXCEPT ![this].aliases = Append(@, lower)]
      previous == lookup(reg.commandMap, lower)
  IN IF previous = 0
       THEN [commands |-> pushed, commandMap |-> put(reg.commandMap, lower, this),
             error |-> ""]
     ELSE IF previous # this
       THEN [commands |-> pushed, commandMap |-> reg.commandMap, error |-> "duplicate"]
     ELSE [commands |-> pushed, commandMap |-> reg.commandMap, error |-> ""]

\* new Command(name, declaration, context): the object joins app._commands
\* after _registerAlias returned; when that throws there is no object
construct(reg, name, context) ==
  LET fresh == [name |-> name, context |-> context, parent |-> 0,
                children |-> <<>>, aliases |-> <<>>]
      r     == registerAlias([commands   |-> Append(reg.commands, fresh),
                              commandMap |-> reg.commandMap],
                             Len(reg.commands) + 1, name)
  IN IF r.error # ""
       THEN [commands |-> reg.commands, commandMap |-> reg.commandMap, error |-> r.error]
       ELSE r

\* command.parent = parent; parent.children.push(command)
link(cmds, parent, command) ==
  [cmds EXCEPT ![command].parent = parent, ![parent].children = Append(@, command)]

failed(st, error) == [st EXCEPT !.error = error]

\* an anchor that is the calling context whatever the parent
anchorCalling(cmds, this, parent) == this

\* const context = parent ? this.intersect(parent.context) : this
anchor(cmds, this, parent) ==
  IF parent # 0 THEN intersect(this, cmds[parent].context) ELSE this

\* a resolution that links an existing command without looking at its context
resolveExistingUnchecked(st, command) ==
  IF st.parent = 0 THEN [st EXCEPT !.parent = command]
  ELSE IF command = st.parent THEN failed(st, "INVALID_SUBCOMMAND")
  ELSE IF st.commands[command].parent # 0
    THEN IF st.commands[command].parent # st.parent
           THEN failed(st, "INVALID_SUBCOMMAND")
           ELSE [st EXCEPT !.parent = command]
  ELSE [st EXCEPT !.commands = link(@, st.parent, command), !.parent = command]

\* the branch of command() for a name that is in the command map
resolveExisting(st, command) ==
  IF st.parent = 0 THEN [st EXCEPT !.parent = command]
  ELSE IF command = st.parent THEN failed(st, "INVALID_SUBCOMMAND")
  ELSE IF st.commands[command].parent # 0
    THEN IF st.commands[command].parent # st.parent
           THEN failed(st, "INVALID_SUBCOMMAND")
           ELSE [st EXCEPT !.parent = command]
  ELSE IF contain(st.commands[st.parent].context, st.commands[command].context)
    THEN [st EXCEPT !.commands = link(@, st.parent, command), !.parent = command]
  ELSE failed(st, "INVALID_CONTEXT")

\* a creation that does not look for the null scope
createNewUnchecked(st, this, name) ==
  LET context == anchor(st.commands, this, st.parent)
      r       == construct(st, name, context)
      command == Len(st.commands) + 1
  IN IF r.error # "" THEN failed(st, r.error)
     ELSE [commands   |-> IF st.parent # 0 THEN link(r.commands, st.parent, command)
                                           ELSE r.commands,
           commandMap |-> r.commandMap,
           parent     |-> command,
           error      |-> ""]

\* the branch of command() for a name that is not in the command map
createNew(st, this, name) ==
  LET context == anchor(st.commands, this, st.parent)
      r       == construct(st, name, context)
      command == Len(st.commands) + 1
  IN IF context.identifier = noopIdentifier THEN failed(st, "INVALID_CONTEXT")
     ELSE IF r.error # "" THEN failed(st, r.error)
     ELSE [commands   |-> IF st.parent # 0 THEN link(r.commands, st.parent, command)
                                           ELSE r.commands,
           commandMap |-> r.commandMap,
           parent     |-> command,
           error      |-> ""]

\* the body of segments.forEach in command(); parent.name of a null parent
\* is a TypeError
resolveSegment(st, this, segment) ==
  LET code == charAt(segment, 1)
  IN IF code = "." /\ st.parent = 0 THEN failed(st, "TypeError")
     ELSE LET name    == IF code = "." THEN st.commands[st.parent].name \o segment
                         ELSE IF code = "/" THEN SubSeq(segment, 2, Len(segment))
                         ELSE segment
              command == lookup(st.commandMap, name)
          IN IF command # 0 THEN resolveExisting(st, command)
                            ELSE createNew(st, this, name)

RECURSIVE resolveSegments(_, _, _)
resolveSegments(st, this, segments) ==
  IF segments = <<>> \/ st.error # "" THEN st
  ELSE resolveSegments(resolveSegment(st, this, Head(segments)), this, Tail(segments))

\* context.command(rawName): the registry after the call, the command it
\* returns (parent) and the error it throws
command(reg, this, rawName) ==
  resolveSegments([commands |-> reg.commands, commandMap |-> reg.commandMap,
                   parent |-> 0, error |-> ""],
                  this, splitSegments(toLowerCase(pathOf(rawName))))

\* command.subcommand(rawName)
subcommand(reg, this, rawName) ==
  command(reg, reg.commands[this].context,
          reg.commands[this].name \o (IF charAt(rawName, 1) = "." THEN "" ELSE "/") \o rawName)

\* the contexts that plugins declare commands on: every event, user 1,
\* everyone but user 1, and the null scope
exceptUserContext == createContext(<< <<null, Arr(<<1>>)>>, allSub, allSub >>)

CommandContexts == {anyContext, userContext, exceptUserContext, noopContext}

\* the declarations handed to context.command
CommandPaths == {"a", "B <x>", "a/b", "b/a", "a.b", "a/a"}

\* the declarations handed to command.subcommand
SubcommandPaths == {"b"}

\* the names handed to command.alias
AliasArgs == {<<"B">>}

InitCommands ==
  /\ A = createContext(noopScope)
  /\ B = createContext(noopScope)
  /\ meta = nullMeta
  /\ ident = ""
  /\ result = noResult
  /\ hooks = <<>>
  /\ disp = idle
  /\ commands = <<>>
  /\ commandMap = {}
  /\ lastCall = noCall
  /\ OnceAtRest /\ MiddlewareAtRest /\ ExecuteAtRest /\ AppAtRest /\ ObserveAtRest

commandsRest == <<A, B, meta, ident, result, hooks, disp, disp2, onceLog, middlewares,
                  mwLog, exec, app, obs>>

registry == [commands |-> commands, commandMap |-> commandMap]

\* this.command(rawName)
Command(this, rawName) ==
  \E r \in {command(registry, this, rawName)} :
     /\ Len(r.commands) <= MaxCommands
     /\ commands' = r.commands
     /\ commandMap' = r.commandMap
     /\ lastCall' = [op |-> "command", context |-> this, target |-> 0,
                     args |-> <<rawName>>, error |-> r.error,
                     returned |-> IF r.error = "" THEN r.parent ELSE 0]
     /\ UNCHANGED commandsRest

\* commands[c].subcommand(rawName)
Subcommand(c, rawName) ==
  /\ c \in 1 .. Len(commands)
  /\ \E r \in {subcommand(registry, c, rawName)} :
        /\ Len(r.commands) <= MaxCommands
        /\ commands' = r.commands
        /\ commandMap' = r.commandMap
        /\ lastCall' = [op |-> "subcommand", context |-> commands[c].context,
                        target |-> c, args |-> <<rawName>>, error |-> r.error,
                        returned |-> IF r.error = "" THEN r.parent ELSE 0]
  /\ UNCHANGED commandsRest

RECURSIVE aliasLoop(_, _, _)
\* for (const name of names) this._registerAlias(name)
aliasLoop(reg, this, names) ==
  IF names = <<>> THEN [commands |-> reg.commands, commandMap |-> reg.commandMap,
                        error |-> ""]
  ELSE LET r == registerAlias(reg, this, Head(names))
       IN IF r.error # "" THEN r ELSE aliasLoop(r, this, Tail(names))

\* commands[c].alias(...names)
Alias(c, names) ==
  /\ c \in 1 .. Len(commands)
  /\ \E r \in {aliasLoop(registry, c, names)} :
        /\ Len(r.commands[c].aliases) <= MaxAliases
        /\ commands' = r.commands
        /\ commandMap' = r.commandMap
        /\ lastCall' = [op |-> "alias", context |-> commands[c].context, target |-> c,
                        args |-> names, error |-> r.error, returned |-> 0]
  /\ UNCHANGED commandsRest

NextCommands ==
  \/ \E this \in CommandContexts, rawName \in CommandPaths : Command(this, rawName)
  \/ \E c \in 1 .. MaxCommands, rawName \in SubcommandPaths : Subcommand(c, rawName)
  \/ \E c \in 1 .. MaxCommands, names \in AliasArgs : Alias(c, names)

SpecCommands == InitCommands /\ [][NextCommands]_vars

(***************************************************************************)
(* Claims about the command registry (SpecCommands).                       *)
(***************************************************************************)
\* C13: each name in the command map resolves to exactly one command, and
\* registering a name that belongs to a different command fails with the
\* duplicate-name error while the entry keeps pointing at its owner
UniqueNames ==
  /\ [](/\ \A e1 \in commandMap, e2 \in commandMap : e1[1] = e2[1] => e1 = e2
        /\ \A e \in commandMap : e[2] \in 1 .. Len(commands))
  /\ [][\A c \in 1 .. Len(commands), k \in 1 .. 2 :
          LET names == lastCall'.args
              owner == IF k <= Len(names)
                         THEN lookup(commandMap, toLowerCase(names[k])) ELSE 0
          IN (lastCall'.op = "alias" /\ lastCall'.target = c /\ owner # 0 /\ owner # c) =>
               /\ lastCall'.error = "duplicate"
               /\ lookup(commandMap', toLowerCase(names[k])) = owner]_vars

\* C13 witness: alias() was refused a name that another command owns
UniqueNamesWitness ==
  /\ lastCall.op = "alias"
  /\ lastCall.error = "duplicate"
  /\ lastCall.args = <<"B">>
  /\ lookup(commandMap, "b") # 0
  /\ lookup(commandMap, "b") # lastCall.target

\* C14: every command with a parent has a context the parent's context
\* contains and is among the parent's children; children holds only
\* commands that the context contains and whose recorded parent is the holder
Containment ==
  \A c \in 1 .. Len(commands) :
    /\ commands[c].parent # 0 =>
         /\ contain(commands[commands[c].parent].context, commands[c].context)
         /\ \E k \in 1 .. Len(commands[commands[c].parent].children) :
              commands[commands[c].parent].children[k] = c
    /\ \A k \in 1 .. Len(commands[c].children) :
         /\ contain(commands[c].context, commands[commands[c].children[k]].context)
         /\ commands[commands[c].children[k]].parent = c

\* C14 witness: a command of a narrower context is a child of a command
\* that every event matches
ContainmentWitness ==
  /\ Len(commands) >= 2
  /\ commands[2].parent = 1
  /\ commands[1].children = <<2>>
  /\ commands[1].context = anyContext
  /\ commands[2].context = exceptUserContext

\* the names of a declaration, segment by segment, without their markers
segmentsOf(rawName) == splitSegments(toLowerCase(pathOf(rawName)))

\* the name a segment carries after its marker
nameOf(segment) ==
  IF charAt(segment, 1) = "/" THEN SubSeq(segment, 2, Len(segment)) ELSE segment

\* the declaration is parent/name and before the call both names resolve
twoNames(call, segments) ==
  IF call.op = "command"
    THEN /\ Len(segments) = 2
         /\ charAt(segments[2], 1) = "/"
         /\ lookup(commandMap, segments[1]) # 0
    ELSE lookup(commandMap, segments[1]) # 0

\* the parent established when the last segment is resolved
establishedParent(call, segments) ==
  IF call.op = "command" THEN lookup(commandMap, segments[1]) ELSE call.target

incompatible(ctx1, ctx2) == intersect(ctx1, ctx2).identifier = noopIdentifier

\* C16: declaring a bare name that a parent-less command has, from a calling
\* context incompatible with that command's context, raises Invalid-context
BareNameReuseRejected ==
  (/\ lastCall.op = "command"
   /\ Len(segmentsOf(lastCall.args[1])) = 1
   /\ lookup(commandMap, segmentsOf(lastCall.args[1])[1]) # 0
   /\ commands[lookup(commandMap, segmentsOf(lastCall.args[1])[1])].parent = 0
   /\ incompatible(lastCall.context,
                   commands[lookup(commandMap, segmentsOf(lastCall.args[1])[1])].context))
    => lastCall.error = "INVALID_CONTEXT"

\* the scope matches no tagged event
nullScope(ctx) ==
  \A index \in Dims : ctx.scope[index][1] # null /\ ctx.scope[index][1][1] = <<>>

\* the anchor of the command the call has to create
anchorOf(call, segments) ==
  IF Len(segments) = 1 THEN call.context
  ELSE intersect(call.context, commands[lookup(commandMap, segments[1])].context)

\* the name of the last segment is free and the name before it resolves
mustCreate(segments) ==
  \/ Len(segments) = 1 /\ lookup(commandMap, segments[1]) = 0
  \/ /\ Len(segments) = 2
     /\ charAt(segments[2], 1) = "/"
     /\ lookup(commandMap, segments[1]) # 0
     /\ lookup(commandMap, nameOf(segments[2])) = 0

\* C17: when command() has to create a command whose anchor context is the
\* null scope it throws the invalid-context error and registers nothing under
\* the name; and no command of the registry has the null scope as its context
NullAnchorRejected ==
  /\ [][lastCall'.op = "command" =>
          \A segments \in {segmentsOf(lastCall'.args[1])} :
            (mustCreate(segments) /\ nullScope(anchorOf(lastCall', segments))) =>
              /\ lastCall'.error = "INVALID_CONTEXT"
              /\ commands' = commands
              /\ commandMap' = commandMap]_vars
  /\ [](\A c \in 1 .. Len(commands) : ~nullScope(commands[c].context))

\* C17 witness: a/b was declared by a context that has no event in common
\* with the context of a, and there is no b
NullAnchorRejectedWitness ==
  /\ lastCall.op = "command"
  /\ lastCall.args = <<"a/b">>
  /\ lastCall.error = "INVALID_CONTEXT"
  /\ lookup(commandMap, "a") # 0
  /\ lookup(commandMap, "b") = 0
  /\ ~nullScope(lastCall.context)
  /\ nullScope(intersect(lastCall.context, commands[lookup(commandMap, "a")].context))

\* ---------------------------------------------------------------------
\* Command.action and Command.execute: the before-command check, the
\* action chain, the continuation and the catch block (command.ts 198-241)
\* ---------------------------------------------------------------------

\* the longest action chain
MaxActions == 3

\* JavaScript values as far as execute tells them apart
undefined == [t |-> "undefined", s |-> ""]

string(s) == [t |-> "string", s |-> s]

true == [t |-> "boolean", s |-> "true"]

\* an Error object: it has a stack
Error(message) == [t |-> "Error", s |-> message]

typeof(v) == v.t

\* if (result)
truthy(v) ==
  \/ typeof(v) = "string" /\ v.s # ""
  \/ typeof(v) = "boolean" /\ v.s = "true"
  \/ typeof(v) = "Error"

\* error.stack is a string; of a thrown string it is undefined
hasStack(v) == typeof(v) = "Error"

\* what a callback does when it is called
returns(v) == [does |-> "return", value |-> v]

throws(v) == [does |-> "throw", value |-> v]

\* await argv.next(); the callback then returns undefined
callsNext == [does |-> "next", value |-> undefined]

\* await argv.next(); the callback then throws
callsNextThenThrows(v) == [does |-> "nextThrow", value |-> v]

\* argv.next() without await; the callback then returns undefined
firesNext == [does |-> "fire", value |-> undefined]

\* the wrapper that option() puts in the chain for an option with an action
guarded(name, callback) ==
  [does |-> "guard", value |-> undefined, name |-> name, action |-> callback]

\* option() called without an action
noAction == [does |-> "none", value |-> undefined]

\* name in argv.options, for argv.options given by its keys
in(name, options) == name \in options

\* what a member of the chain does when it is called with argv: the wrapper
\* of an option calls its action if the option's key is in argv.options and
\* returns undefined otherwise
calling(options, callback) ==
  IF callback.does = "guard"
    THEN IF in(callback.name, options) THEN callback.action ELSE returns(undefined)
  ELSE callback

\* a before-command hook: whether its context matches the session, and
\* what it does
BeforeHook(matches, behaviour) == [matches |-> matches, behaviour |-> behaviour]

ActionCallbacks ==
  {returns(string("A")), returns(string("")), returns(undefined),
   throws(Error("E")), throws(string("fail")), callsNext,
   callsNextThenThrows(Error("E")), firesNext}

HookLists ==
  {<<>>,
   <<BeforeHook(TRUE, returns(string(""))), BeforeHook(TRUE, returns(string("no")))>>,
   <<BeforeHook(FALSE, returns(string("no"))), BeforeHook(TRUE, returns(undefined))>>,
   <<BeforeHook(TRUE, returns(true)), BeforeHook(TRUE, returns(string("no")))>>,
   <<BeforeHook(TRUE, throws(Error("E")))>>,
   <<BeforeHook(TRUE, returns(undefined)), BeforeHook(TRUE, throws(string("fail")))>>}

\* the keys of options that are declared with an action
OptionNames == {"o", "p"}

\* the actions given to option()
OptionCallbacks == {returns(undefined), returns(string("O")), noAction}

\* the actions given to action() next to options
PlainCallbacks == {returns(undefined), returns(string("A")), throws(Error("E")), callsNext}

\* argv.options as the parser leaves it, by its keys
ParsedOptions == {{}, {"o"}, {"o", "p"}}

\* argv.options of a command whose chain has no option wrappers
NoOptions == {{}}

\* the values a continuation rejects with
ContinuationErrors == {Error("N")}

\* Command.action: _actions.unshift(callback) or _actions.push(callback)
action(actions, callback, prepend) ==
  IF prepend THEN <<callback>> \o actions ELSE Append(actions, callback)

\* an option whose wrapper is put at the end of the chain
optionAppended(actions, name, callback) ==
  IF callback = noAction THEN actions
  ELSE Append(actions, guarded(name, callback))

\* Command.option: if (action) this._actions.unshift(wrapper)
option(actions, name, callback) ==
  IF callback = noAction THEN actions
  ELSE <<guarded(name, callback)>> \o actions

\* return value: the promise of execute resolves
resolve(e, value) == [e EXCEPT !.status = "resolved", !.result = value]

\* throw value: the promise of execute rejects
reject(e, value) == [e EXCEPT !.status = "rejected", !.result = value]

\* catch (error): rethrows inside the continuation; otherwise coerce(error),
\* then error.stack.indexOf(lastCall) when there is a call site, which is a
\* TypeError for a value without a stack, then logger.warn and the end of
\* the function
catch(e, value) ==
  LET f == [e EXCEPT !.raised = Append(@, value),
                     !.raisedInside = Append(@, e.conts # <<>> \/ e.threw)]
  IN IF f.state = "" THEN reject(f, value)
     ELSE IF f.lastCall /\ ~hasStack(value) THEN reject(f, Error("TypeError"))
     ELSE resolve([f EXCEPT !.logged = TRUE], undefined)

\* if (typeof result === 'string') return result, on truthy results only
returnResultTruthy(e, value, otherwise) ==
  IF typeof(value) = "string" /\ truthy(value) THEN resolve(e, value) ELSE otherwise

\* if (typeof result === 'string') return result
returnResult(e, value, otherwise) ==
  IF typeof(value) = "string" THEN resolve(e, value) ELSE otherwise

\* the check returned a result and the chain starts regardless
afterSerialRegardless(e, value) ==
  [e EXCEPT !.status = "actions", !.checked = TRUE, !.check = value]

\* const result = await this.app.serial(...) has a value
afterSerial(e, value) ==
  LET f == [e EXCEPT !.checked = TRUE, !.check = value]
  IN returnResult(f, value, [f EXCEPT !.status = "actions"])

\* one round of the loop of serial: the hook at hookIdx is skipped when its
\* context does not match, otherwise called and awaited; a truthy result is
\* the result of serial, past the last hook it is undefined
serial(e) ==
  IF e.hookIdx > Len(e.hooks) THEN afterSerial(e, undefined)
  ELSE LET hook == e.hooks[e.hookIdx]
           f    == [e EXCEPT !.hookIdx = @ + 1]
       IN IF ~hook.matches THEN f
          ELSE LET g == [f EXCEPT !.hooksRan = Append(@, e.hookIdx)]
               IN IF hook.behaviour.does = "throw" THEN catch(g, hook.behaviour.value)
                  ELSE IF truthy(hook.behaviour.value)
                    THEN afterSerial(g, hook.behaviour.value)
                  ELSE g

\* argv.next(fallback) up to its await: oldState = state, state = ''
argvNext(e, awaited) ==
  [e EXCEPT !.conts = Append(@, [oldState |-> e.state, awaited |-> awaited]),
            !.state = "", !.entered = TRUE,
            !.overlapped = @ \/ e.conts # <<>>]

\* one round of for (const action of this._actions), and return '' past the
\* last action
callAction(e) ==
  IF e.idx > Len(e.actions) THEN resolve(e, string(""))
  ELSE LET callback == calling(e.options, e.actions[e.idx])
           acts     == e.actions[e.idx].does = "guard" => in(e.actions[e.idx].name, e.options)
           f        == [e EXCEPT !.ran = Append(@, e.idx),
                                 !.acted = IF acts THEN Append(@, e.idx) ELSE @]
       IN CASE callback.does = "throw" -> catch(f, callback.value)
            [] callback.does \in {"next", "nextThrow"} ->
                 [argvNext(f, TRUE) EXCEPT !.status = "continuation"]
            [] callback.does = "fire" -> [argvNext(f, FALSE) EXCEPT !.idx = @ + 1]
            [] OTHER -> returnResult(f, callback.value, [f EXCEPT !.idx = @ + 1])

\* a sequence without its i-th element
without(seq, i) == SubSeq(seq, 1, i - 1) \o SubSeq(seq, i + 1, Len(seq))

\* the i-th running call of argv.next is over and the marker is left as it is
continuationReturnsKeeping(e, i) ==
  LET f == [e EXCEPT !.conts = without(@, i)]
  IN IF ~e.conts[i].awaited THEN f
     ELSE IF calling(e.options, e.actions[e.idx]).does = "nextThrow"
       THEN catch(f, calling(e.options, e.actions[e.idx]).value)
     ELSE [f EXCEPT !.status = "actions", !.idx = @ + 1]

\* await next(fallback) of the i-th running call of argv.next is over:
\* state = oldState; an action that awaited the call goes on, to throw or
\* to return undefined
continuationReturns(e, i) ==
  LET f == [e EXCEPT !.conts = without(@, i), !.state = e.conts[i].oldState]
  IN IF ~e.conts[i].awaited THEN f
     ELSE IF calling(e.options, e.actions[e.idx]).does = "nextThrow"
       THEN catch(f, calling(e.options, e.actions[e.idx]).value)
     ELSE [f EXCEPT !.status = "actions", !.idx = @ + 1]

\* next(fallback) of the i-th running call of argv.next rejects: state stays
\* as it is, and an action that awaited the call rejects with the same value
continuationThrows(e, i, value) ==
  LET f == [e EXCEPT !.conts = without(@, i), !.threw = TRUE]
  IN IF e.conts[i].awaited THEN catch(f, value) ELSE f

\* the command before execute is called
newCommand(list, prettyErrors) ==
  [status |-> "building", hooks |-> list, prettyErrors |-> prettyErrors,
   actions |-> <<>>, order |-> <<>>, options |-> {}, acted |-> <<>>, state |-> "", conts |-> <<>>, lastCall |-> FALSE,
   hookIdx |-> 1, hooksRan |-> <<>>, checked |-> FALSE, check |-> undefined,
   idx |-> 1, ran |-> <<>>, entered |-> FALSE, raised |-> <<>>,
   raisedInside |-> <<>>, threw |-> FALSE, overlapped |-> FALSE,
   logged |-> FALSE, result |-> undefined]

InitExecute ==
  /\ A = noopContext
  /\ B = noopContext
  /\ meta = nullMeta
  /\ ident = ""
  /\ result = noResult
  /\ hooks = <<>>
  /\ disp = idle
  /\ OnceAtRest
  /\ MiddlewareAtRest
  /\ CommandsAtRest /\ AppAtRest /\ ObserveAtRest
  /\ \E list \in HookLists, prettyErrors \in BOOLEAN :
       exec = newCommand(list, prettyErrors)

executeRest ==
  <<A, B, meta, ident, result, hooks, disp, disp2, onceLog, middlewares, mwLog,
    commands, commandMap, lastCall, app, obs>>

\* the entry of a plain action in order, the list of declarations kept in
\* step with the chain: an option's entry is its wrapper with the number of
\* the declaration for a name
declared(prepend) == returns(string(IF prepend THEN "prepended" ELSE "appended"))

\* cmd.action(callback, prepend)
Action(callback, prepend) ==
  /\ exec.status = "building"
  /\ Len(exec.actions) < MaxActions
  /\ exec' = [exec EXCEPT !.actions = action(@, callback, prepend),
                          !.order = action(@, declared(prepend), prepend)]
  /\ UNCHANGED executeRest

\* cmd.option(name, desc, config, callback); the table of options that
\* _createOption fills is not part of the chain
Option(name, callback) ==
  /\ exec.status = "building"
  /\ Len(exec.actions) < MaxActions
  /\ exec' = [exec EXCEPT !.actions = option(@, name, callback),
                          !.order = option(@, Len(exec.actions) + 1, callback)]
  /\ UNCHANGED executeRest

\* execute up to its first await; the call site is found when prettyErrors
\* is on and the stack of new Error() has a fourth line
Execute(deep, options) ==
  /\ exec.status = "building"
  /\ exec' = [exec EXCEPT !.status = "before", !.state = "before command",
                          !.options = options,
                          !.lastCall = exec.prettyErrors /\ deep]
  /\ UNCHANGED executeRest

\* the before-command check goes on by one hook
BeforeCommand ==
  /\ exec.status = "before"
  /\ \E e \in {serial(exec)} : exec' = e
  /\ UNCHANGED executeRest

\* the chain goes on by one action
CallAction ==
  /\ exec.status = "actions"
  /\ \E e \in {callAction(exec)} : exec' = e
  /\ UNCHANGED executeRest

\* a running call of argv.next returns
ContinuationReturns(i) ==
  /\ exec.status \in {"actions", "continuation"}
  /\ i <= Len(exec.conts)
  /\ \E e \in {continuationReturns(exec, i)} : exec' = e
  /\ UNCHANGED executeRest

\* a running call of argv.next rejects
ContinuationThrows(i, value) ==
  /\ exec.status \in {"actions", "continuation"}
  /\ i <= Len(exec.conts)
  /\ \E e \in {continuationThrows(exec, i, value)} : exec' = e
  /\ UNCHANGED executeRest

NextExecute ==
  \/ \E callback \in ActionCallbacks, prepend \in BOOLEAN : Action(callback, prepend)
  \/ \E deep \in BOOLEAN, options \in NoOptions : Execute(deep, options)
  \/ BeforeCommand
  \/ CallAction
  \/ \E i \in 1 .. MaxActions : ContinuationReturns(i)
  \/ \E i \in 1 .. MaxActions, value \in ContinuationErrors : ContinuationThrows(i, value)

SpecExecute == InitExecute /\ [][NextExecute]_vars

\* commands that declare options with actions next to plain actions
NextOptions ==
  \/ \E callback \in PlainCallbacks, prepend \in BOOLEAN : Action(callback, prepend)
  \/ \E name \in OptionNames, callback \in OptionCallbacks : Option(name, callback)
  \/ \E deep \in BOOLEAN, options \in ParsedOptions : Execute(deep, options)
  \/ BeforeCommand
  \/ CallAction
  \/ \E i \in 1 .. MaxActions : ContinuationReturns(i)
  \/ \E i \in 1 .. MaxActions, value \in ContinuationErrors : ContinuationThrows(i, value)

SpecOptions == InitExecute /\ [][NextOptions]_vars

\* the action returns a string
returnsString(callback) ==
  callback.does = "return" /\ typeof(callback.value) = "string"

\* the check let the chain start and nothing was thrown
plainRun == exec.checked /\ typeof(exec.check) # "string" /\ exec.raised = <<>>

\* C18 (as stated): when execute resolves, its result is the return value of
\* the first action of the chain that returns a non-empty string and exactly
\* the actions up to it have run; with no such action the result is ''
FirstNonEmptyStringHalts ==
  (exec # <<>> /\ exec.status = "resolved" /\ plainRun) =>
    LET strings == {k \in 1 .. Len(exec.actions) :
                      returnsString(exec.actions[k]) /\ truthy(exec.actions[k].value)}
    IN IF strings = {} THEN exec.result = string("")
       ELSE \E k \in strings :
              /\ \A j \in strings : k <= j
              /\ exec.result = exec.actions[k].value
              /\ exec.ran = [i \in 1 .. k |-> i]

\* C18 (amended): the actions run in chain order and none runs after an
\* action that returned a string, the empty string included; when execute
\* resolves after a check that let the chain start and nothing was thrown,
\* its result is the return value of the first action that returns a string
\* and exactly the actions up to it have run, and with no such action every
\* action has run and the result is ''
FirstStringHalts ==
  exec # <<>> =>
    /\ exec.ran = [i \in 1 .. Len(exec.ran) |-> i]
    /\ \A k \in 1 .. Len(exec.ran) - 1 : ~returnsString(exec.actions[k])
    /\ (exec.status = "resolved" /\ plainRun) =>
         LET strings == {k \in 1 .. Len(exec.actions) : returnsString(exec.actions[k])}
         IN IF strings = {}
              THEN exec.result = string("") /\ Len(exec.ran) = Len(exec.actions)
            ELSE \E k \in strings :
                   /\ \A j \in strings : k <= j
                   /\ exec.result = exec.actions[k].value
                   /\ Len(exec.ran) = k

\* C18 witness: of three actions the second returned '' after the first
\* returned undefined, and the third, which returns "A", did not run
FirstStringHaltsWitness ==
  /\ exec # <<>>
  /\ exec.status = "resolved"
  /\ exec.actions = <<returns(undefined), returns(string("")), returns(string("A"))>>
  /\ exec.ran = <<1, 2>>
  /\ exec.result = string("")

\* the first matching hook with a truthy result, when no matching hook
\* before it throws, returns a string
shortCircuit(list, k) ==
  /\ list[k].matches
  /\ list[k].behaviour.does = "return"
  /\ typeof(list[k].behaviour.value) = "string"
  /\ truthy(list[k].behaviour.value)
  /\ \A j \in 1 .. k - 1 :
       list[j].matches =>
         list[j].behaviour.does = "return" /\ ~truthy(list[j].behaviour.value)

\* C19: no action runs before the before-command check is over; when the
\* first truthy result of the matching hooks, in hook order, is a string, no
\* action is ever run and execute does not reject and resolves with that string
BeforeCommandShortCircuits ==
  exec # <<>> =>
    /\ exec.ran # <<>> => exec.checked
    /\ \A k \in 1 .. Len(exec.hooks) :
         shortCircuit(exec.hooks, k) =>
           /\ exec.ran = <<>>
           /\ exec.status # "rejected"
           /\ exec.status = "resolved" => exec.result = exec.hooks[k].behaviour.value

\* C19 witness: the second hook returned "no" after the first returned '',
\* and execute resolved with "no" although the command has actions
BeforeCommandShortCircuitsWitness ==
  /\ exec # <<>>
  /\ exec.status = "resolved"
  /\ exec.hooksRan = <<1, 2>>
  /\ exec.result = string("no")
  /\ Len(exec.actions) = 2
  /\ exec.ran = <<>>

\* C20: an error raised by a before-command hook or by an action before the
\* continuation was entered is suppressed: execute resolves with undefined
ErrorsSuppressed ==
  (exec # <<>> /\ exec.raised # <<>> /\ ~exec.entered) =>
    exec.status = "resolved" /\ exec.result = undefined

\* handled by the catch block: logged and suppressed, or the TypeError of a
\* thrown value without a stack
handled(e) ==
  \/ e.status = "resolved" /\ e.result = undefined /\ e.logged
  \/ /\ e.status = "rejected"
     /\ e.lastCall /\ ~hasStack(e.raised[1])
     /\ e.result = Error("TypeError")

MaxShortcuts == 2

DisposePaths == {"a", "a/b", "a/c"}

ShortcutNames == {"s"}

\* Array.prototype.indexOf, counting from 1, 0 when absent
indexOf(seq, x) ==
  IF \E k \in 1 .. Len(seq) : seq[k] = x
    THEN CHOOSE k \in 1 .. Len(seq) : seq[k] = x /\ \A j \in 1 .. k - 1 : seq[j] # x
    ELSE 0

\* array.splice(index, 1) for index = indexOf(...): index -1 counts from
\* the end and removes the last element
splice(seq, k) ==
  IF seq = <<>> THEN seq
  ELSE IF k = 0 THEN SubSeq(seq, 1, Len(seq) - 1)
  ELSE SubSeq(seq, 1, k - 1) \o SubSeq(seq, k + 1, Len(seq))

\* delete map[name]
delete(map, name) == {entry \in map : entry[1] # name}

\* this._shortcuts[name] = config: a new key comes last, an old key keeps
\* its place
assign(own, name, config) ==
  IF \E k \in 1 .. Len(own) : own[k].name = name
    THEN [k \in 1 .. Len(own) |-> IF own[k].name = name THEN config ELSE own[k]]
    ELSE Append(own, config)

\* Command.shortcut(name) on the command this
shortcut(ap, this, name) ==
  LET config == [name |-> name, command |-> this, serial |-> ap.serial + 1]
  IN [ap EXCEPT !.own[this] = assign(@, name, config),
                !.shortcutMap = put(@, name, this),
                !.shortcuts = Append(@, config),
                !.serial = @ + 1]

\* for (const name in this._shortcuts): delete the map entry and splice the
\* config out of app._shortcuts
RECURSIVE disposeShortcuts(_, _)
disposeShortcuts(ap, own) ==
  IF own = <<>> THEN ap
  ELSE disposeShortcuts(
         [ap EXCEPT !.shortcutMap = delete(@, Head(own).name),
                    !.shortcuts = splice(@, indexOf(@, Head(own)))],
         Tail(own))

\* this._aliases.forEach(name => delete this.app._commandMap[name])
RECURSIVE disposeAliases(_, _)
disposeAliases(map, aliases) ==
  IF aliases = <<>> THEN map
  ELSE disposeAliases(delete(map, Head(aliases)), Tail(aliases))

\* what dispose does after the loop over the children
disposeSelf(st, this) ==
  LET parent == st.commands[this].parent
      cmds   == IF parent = 0 THEN st.commands
                ELSE [st.commands EXCEPT
                        ![parent].children = splice(@, indexOf(@, this))]
      ap     == disposeShortcuts(st.app, st.app.own[this])
  IN [commands   |-> cmds,
      commandMap |-> disposeAliases(st.commandMap, st.commands[this].aliases),
      app        |-> [ap EXCEPT !.commands = splice(@, indexOf(@, this))]]

\* Command.dispose() on the command this; the loop over this.children reads
\* the array at its current length in every round, while the child disposed
\* in the round has spliced itself out of it
RECURSIVE dispose(_, _)
RECURSIVE disposeChildren(_, _, _)
disposeChildren(st, this, i) ==
  IF i > Len(st.commands[this].children) THEN st
  ELSE disposeChildren(dispose(st, st.commands[this].children[i]), this, i + 1)

dispose(st, this) == disposeSelf(disposeChildren(st, this, 1), this)

newApp == [commands |-> <<>>, shortcutMap |-> {}, shortcuts |-> <<>>, own |-> <<>>,
           serial |-> 0]

InitDispose ==
  /\ A = noopContext
  /\ B = noopContext
  /\ meta = nullMeta
  /\ ident = ""
  /\ result = noResult
  /\ hooks = <<>>
  /\ disp = idle
  /\ OnceAtRest /\ MiddlewareAtRest /\ CommandsAtRest /\ ExecuteAtRest /\ ObserveAtRest
  /\ app = newApp

disposeRest ==
  <<A, B, meta, ident, result, hooks, disp, disp2, onceLog, middlewares, mwLog, exec, obs>>

\* app.command(rawName): every command it constructs joins app._commands
Declare(this, rawName) ==
  /\ \E r \in {command(registry, this, rawName)} :
        /\ Len(r.commands) <= MaxCommands
        /\ commands' = r.commands
        /\ commandMap' = r.commandMap
        /\ app' = [app EXCEPT
                     !.commands = @ \o [k \in 1 .. Len(r.commands) - Len(commands) |->
                                          Len(commands) + k],
                     !.own = @ \o [k \in 1 .. Len(r.commands) - Len(commands) |-> <<>>]]
        /\ lastCall' = [op |-> "command", context |-> this, target |-> 0,
                        args |-> <<rawName>>, error |-> r.error,
                        returned |-> IF r.error = "" THEN r.parent ELSE 0]
  /\ UNCHANGED disposeRest

\* commands[c].shortcut(name)
Shortcut(c, name) ==
  /\ c \in 1 .. Len(commands)
  /\ app.serial < MaxShortcuts
  /\ app' = shortcut(app, c, name)
  /\ lastCall' = [op |-> "shortcut", context |-> commands[c].context, target |-> c,
                  args |-> <<name>>, error |-> "", returned |-> 0]
  /\ UNCHANGED <<commands, commandMap, disposeRest>>

\* commands[c].dispose()
Dispose(c) ==
  /\ c \in 1 .. Len(commands)
  /\ \E r \in {dispose([commands |-> commands, commandMap |-> commandMap, app |-> app], c)} :
        /\ commands' = r.commands
        /\ commandMap' = r.commandMap
        /\ app' = r.app
  /\ lastCall' = [op |-> "dispose", context |-> commands[c].context, target |-> c,
                  args |-> <<>>, error |-> "", returned |-> 0]
  /\ UNCHANGED disposeRest

NextDispose ==
  \/ \E rawName \in DisposePaths : Declare(anyContext, rawName)
  \/ \E c \in 1 .. MaxCommands, name \in ShortcutNames : Shortcut(c, name)
  \/ \E c \in 1 .. MaxCommands : Dispose(c)

SpecDispose == InitDispose /\ [][NextDispose]_vars

\* the command d is a or has a among its parents
RECURSIVE descends(_, _, _, _)
descends(cmds, d, a, fuel) ==
  \/ d = a
  \/ fuel > 0 /\ cmds[d].parent # 0 /\ descends(cmds, cmds[d].parent, a, fuel - 1)

\* the command is in no registry of the app
gone(d) ==
  /\ \A entry \in commandMap : entry[2] # d
  /\ \A k \in 1 .. Len(app.commands) : app.commands[k] # d
  /\ \A entry \in app.shortcutMap : entry[2] # d
  /\ \A k \in 1 .. Len(app.shortcuts) : app.shortcuts[k].command # d

\* C22: after dispose() on a command, the command and its descendants are
\* in neither the command map, the command list nor the shortcut map and
\* list, and the command is not among the children of its parent
DisposeComplete ==
  lastCall.op = "dispose" =>
    /\ \A d \in 1 .. Len(commands) :
         descends(commands, d, lastCall.target, Len(commands)) => gone(d)
    /\ commands[lastCall.target].parent # 0 =>
         indexOf(commands[commands[lastCall.target].parent].children, lastCall.target) = 0

\* ---------------------------------------------------------------------
\* Context.observeUser and Context.observeGroup (context.ts 319-412) over
\* userCache / groupCache (context.ts 45-46), for the events of one entity
\* id.  A behaviour exercises one of the two methods, obs.kind.
\* ---------------------------------------------------------------------

\* observe is called at most MaxObserveCalls times
MaxObserveCalls == 2

\* app.options.userCacheTimeout / groupCacheTimeout
CacheTimeouts == {1}

\* Date.now() runs from 0 until the longest timeout has passed
MaxTime == CHOOSE t \in CacheTimeouts : \A u \in CacheTimeouts : u <= t

ObserveEvents == 1 .. 2

\* the method exercised and whether the second event is anonymous; for
\* observeGroup the flag makes no difference
ObserveConfigs == {<<"user", FALSE>>, <<"user", TRUE>>, <<"group", TRUE>>}

Fields == {"x", "y"}

FieldSets == {{"x"}, {"x", "y"}}

\* a field the record does not have
absent == -1

\* for (const key in record) / Object.keys(record): the fields present and,
\* once stamped, _timestamp
keys(record) ==
  {f \in Fields : record.data[f] # absent} \cup
    (IF record.timestamp # absent THEN {"_timestamp"} ELSE {})

\* koishi-utils contain(array1, array2): array1 has every item of array2
includesAll(array1, array2) == \A item \in array2 : item \in array1

\* a cache entry of any age is active
isActiveCacheIgnoringAge(o, fieldArray) ==
  o.cache # 0 /\ includesAll(keys(o.records[o.cache]), fieldArray)

\* const isActiveCache = cache && contain(Object.keys(cache), fieldArray)
\*   && timestamp - cache._timestamp < timeout
isActiveCache(o, fieldArray) ==
  /\ o.cache # 0
  /\ includesAll(keys(o.records[o.cache]), fieldArray)
  /\ o.now - o.records[o.cache].timestamp < o.timeout

\* database.getUser / getGroup answers with the fields asked for, as the
\* storage holds them when it reads
getEntity(o, fieldArray) ==
  [data |-> [f \in Fields |-> IF f \in fieldArray THEN o.storage[f] ELSE absent],
   timestamp |-> absent]

\* createUser(userId, defaultAuthority): a record with every field at its
\* default, never stored
createUser == [data |-> [f \in Fields |-> 0], timestamp |-> absent]

\* the call c has made no observer
noObserver == [target |-> 0, update |-> FALSE, event |-> 0,
               diff |-> [f \in Fields |-> absent]]

\* observe(data, update) in the call c: an observer of the object data
\* itself, with an empty diff; update is the write-back
observe(o, c, record, update) ==
  [o EXCEPT !.observers[c] = [target |-> record, update |-> update,
                              event |-> o.calls[c].event,
                              diff |-> [f \in Fields |-> absent]]]

\* defineProperty(meta, '$user', user) with the observer of the call c
defineProperty(o, c) == [o EXCEPT !.bound[o.calls[c].event] = c]

\* the call c returns the observer binding
returned(o, c, binding) ==
  [o EXCEPT !.calls[c].phase = "done", !.calls[c].returned = binding]

\* the call c awaits database.getUser / getGroup for fieldArray
fetching(o, c, path, fieldArray) ==
  [o EXCEPT !.calls[c].phase = "issued", !.calls[c].path = path,
            !.calls[c].fieldArray = fieldArray,
            !.calls[c].record = Len(o.records) + 1,
            !.records = Append(@, [data |-> [f \in Fields |-> absent],
                                   timestamp |-> absent])]

\* the call c binds an observer with a write-back to the cached object or
\* to a fetched one and returns it
bindEntity(o, c, record) == returned(defineProperty(observe(o, c, record, TRUE), c), c, c)

\* observeUser / observeGroup up to the first await or to the return
observeEntity(o, e, fields) ==
  LET binding == o.bound[e]
      c       == Len(o.calls) + 1
      call    == [event |-> e, fields |-> fields, path |-> "cache", phase |-> "called",
                  fieldArray |-> {}, timestamp |-> o.now, user |-> binding,
                  record |-> 0, returned |-> 0, overtaken |-> FALSE,
                  entry |-> IF o.cache = 0 THEN <<>>
                            ELSE <<o.now - o.records[o.cache].timestamp,
                                   keys(o.records[o.cache]), o.cache>>]
      p       == [o EXCEPT !.calls = Append(@, call),
                           !.observers = Append(@, noObserver)]
  IN IF binding # 0 /\ (o.kind = "group" \/ ~o.anonymous[e])
       THEN LET missing == fields \ keys(o.records[o.observers[binding].target])
            IN IF missing # {}
                 THEN fetching(p, c, "merge", missing)
                 ELSE returned([p EXCEPT !.calls[c].path = "bound"], c, binding)
     ELSE IF binding # 0
       THEN returned([p EXCEPT !.calls[c].path = "bound"], c, binding)
     ELSE IF o.kind = "user" /\ o.anonymous[e]
       THEN LET q == [p EXCEPT !.records = Append(@, createUser),
                               !.calls[c].path = "anonymous"]
            IN returned(defineProperty(observe(q, c, Len(q.records), FALSE), c), c, c)
     ELSE IF isActiveCache(o, fields)
       THEN bindEntity(p, c, o.cache)
     ELSE fetching(p, c, "fetch", fields)

\* the storage reads the fields of the call c
databaseRead(o, c) ==
  [o EXCEPT !.records[o.calls[c].record] = getEntity(o, o.calls[c].fieldArray),
            !.calls[c].phase = "read"]

\* $user._merge(data): every key of data that is not in the diff is copied
\* to the observed object
merge(o, binding, record) ==
  LET observer == o.observers[binding]
  IN [o EXCEPT !.records[observer.target].data =
                 [f \in Fields |->
                    IF o.records[record].data[f] # absent /\ observer.diff[f] = absent
                      THEN o.records[record].data[f] ELSE @[f]]]

\* the await of the call c is over, on the branch of a bound entity:
\* _merge, data._timestamp = Date.now(), cache[id] = data
mergeReturns(o, c) ==
  LET call == o.calls[c]
      p    == merge(o, call.user, call.record)
  IN [p EXCEPT !.records[call.record].timestamp = o.now,
               !.cache = call.record,
               !.calls[c].phase = "done",
               !.calls[c].returned = IF o.kind = "user" THEN o.bound[call.event]
                                     ELSE call.user]

\* the await of the call c is over, on the branch without a bound entity:
\* data._timestamp = timestamp, cache[id] = data, observe, defineProperty
fetchReturns(o, c) ==
  LET call == o.calls[c]
  IN bindEntity([o EXCEPT !.records[call.record].timestamp = call.timestamp,
                          !.cache = call.record],
                c, call.record)

\* a handler sets field to value on the entity bound to the event: the
\* observer writes it to the observed object and to the diff
set(o, e, field, value) ==
  LET binding == o.bound[e]
      target  == o.observers[binding].target
  IN [o EXCEPT !.records[target].data[field] = value,
               !.observers[binding].diff[field] = value,
               !.calls = [c \in 1 .. Len(o.calls) |->
                            IF o.calls[c].phase # "done"
                              THEN [o.calls[c] EXCEPT !.overtaken = TRUE] ELSE o.calls[c]],
               !.mutated = @ \cup IF o.observers[binding].update
                                     THEN {<<field, value, e>>} ELSE {}]

\* observer._update(): a diff that is not empty is emptied and handed to
\* the write-back, database.setUser / setGroup, when there is one
update(o, e) ==
  LET binding == o.bound[e]
      diff    == o.observers[binding].diff
      p       == [o EXCEPT !.observers[binding].diff = [f \in Fields |-> absent]]
  IN IF \A f \in Fields : diff[f] = absent THEN o
     ELSE IF ~o.observers[binding].update THEN p
     ELSE [p EXCEPT !.storage = [f \in Fields |-> IF diff[f] # absent THEN diff[f] ELSE @[f]],
                    !.written = @ \cup {e}]

newObservation(kind, anonymous, timeout) ==
  [kind |-> kind, anonymous |-> anonymous, timeout |-> timeout, now |-> 0,
   storage |-> [f \in Fields |-> 0], records |-> <<>>, cache |-> 0,
   observers |-> <<>>, bound |-> [e \in ObserveEvents |-> 0], calls |-> <<>>,
   mutated |-> {}, written |-> {}]

InitObserve ==
  /\ A = noopContext
  /\ B = noopContext
  /\ meta = nullMeta
  /\ ident = ""
  /\ result = noResult
  /\ hooks = <<>>
  /\ disp = idle
  /\ OnceAtRest /\ MiddlewareAtRest /\ CommandsAtRest /\ ExecuteAtRest /\ AppAtRest
  /\ \E config \in ObserveConfigs, timeout \in CacheTimeouts :
       obs = newObservation(config[1], [e \in ObserveEvents |-> e = 2 /\ config[2]],
                            timeout)

observeRest ==
  <<A, B, meta, ident, result, hooks, disp, disp2, onceLog, middlewares, mwLog,
    commands, commandMap, lastCall, exec, app>>

\* a handler of the event e calls observeUser(meta, fields) or
\* observeGroup(meta, fields)
Observe(e, fields) ==
  /\ Len(obs.calls) < MaxObserveCalls
  /\ \E o \in {observeEntity(obs, e, fields)} : obs' = o
  /\ UNCHANGED observeRest

\* the storage reads for a fetch in flight
DatabaseRead(c) ==
  /\ c <= Len(obs.calls)
  /\ obs.calls[c].phase = "issued"
  /\ \E o \in {databaseRead(obs, c)} : obs' = o
  /\ UNCHANGED observeRest

\* a fetch returns to the call that awaits it
FetchReturns(c) ==
  /\ c <= Len(obs.calls)
  /\ obs.calls[c].phase = "read"
  /\ \E o \in {IF obs.calls[c].path = "merge" THEN mergeReturns(obs, c)
               ELSE fetchReturns(obs, c)} : obs' = o
  /\ UNCHANGED observeRest

\* a handler of the event e changes a field of the bound entity
Set(e, field, value) ==
  /\ obs.bound[e] # 0
  /\ obs.records[obs.observers[obs.bound[e]].target].data[field] # value
  /\ \E o \in {set(obs, e, field, value)} : obs' = o
  /\ UNCHANGED observeRest

\* the bound entity of the event e is flushed
Update(e) ==
  /\ obs.bound[e] # 0
  /\ \E o \in {update(obs, e)} : obs' = o
  /\ UNCHANGED observeRest

\* time passes
Tick ==
  /\ obs.now < MaxTime
  /\ obs' = [obs EXCEPT !.now = @ + 1]
  /\ UNCHANGED observeRest

NextObserve ==
  \/ \E e \in ObserveEvents, fields \in FieldSets : Observe(e, fields)
  \/ \E c \in 1 .. MaxObserveCalls : DatabaseRead(c)
  \/ \E c \in 1 .. MaxObserveCalls : FetchReturns(c)
  \/ \E e \in ObserveEvents : Set(e, "x", 1)
  \/ \E e \in ObserveEvents : Update(e)
  \/ Tick

SpecObserve == InitObserve /\ [][NextObserve]_vars

\* the event of the call is not anonymous and had no bound entity
unbound(call) == call.user = 0 /\ ~obs.anonymous[call.event]

\* when the call was made the cache held an entry younger than the timeout
\* with every requested field
servable(call) ==
  /\ call.entry # <<>>
  /\ call.entry[1] < obs.timeout
  /\ call.fields \subseteq call.entry[2]

\* C23: a call for a non-anonymous event without a bound entity issues no
\* fetch exactly when the cache holds a young enough entry with the requested
\* fields, and then binds the cached object; otherwise it issues one fetch
\* for all the requested fields, and when the fetch returns the result is
\* stamped and becomes the cache entry
CacheServesOrFetchesOnce ==
  /\ [](obs # <<>> =>
         \A c \in 1 .. Len(obs.calls) :
           unbound(obs.calls[c]) =>
             IF servable(obs.calls[c])
               THEN /\ obs.calls[c].path = "cache"
                    /\ obs.calls[c].record = 0
                    /\ obs.calls[c].returned = c
                    /\ obs.observers[c].target = obs.calls[c].entry[3]
             ELSE /\ obs.calls[c].path = "fetch"
                  /\ obs.calls[c].record # 0
                  /\ obs.calls[c].fieldArray = obs.calls[c].fields
                  /\ obs.calls[c].phase = "done" =>
                       /\ obs.observers[c].target = obs.calls[c].record
                       /\ obs.calls[c].fields \subseteq keys(obs.records[obs.calls[c].record]))
  /\ [][\A c \in 1 .. Len(obs.calls) :
          (unbound(obs.calls[c]) /\ obs.calls[c].phase = "read"
             /\ obs'.calls[c].phase = "done") =>
            /\ obs'.cache = obs.calls[c].record
            /\ obs'.records[obs'.cache].timestamp = obs.calls[c].timestamp]_vars

\* C23 witness: the first call fetched {x}, and the second, for the other
\* event and the same field, was served from the cache without a fetch
CacheServesOrFetchesOnceWitness ==
  /\ obs # <<>>
  /\ Len(obs.calls) = 2
  /\ obs.calls[1].path = "fetch" /\ obs.calls[1].fields = {"x"}
  /\ obs.calls[2].path = "cache" /\ obs.calls[2].fields = {"x"}
  /\ obs.calls[2].event # obs.calls[1].event
  /\ unbound(obs.calls[2])
  /\ obs.calls[2].phase = "done"
  /\ Len(obs.records) = 1

\* C24: a call for an event with a bound entity fetches exactly the
\* requested fields the entity lacks, and the cache entry it stores holds
\* every field the entity had together with the fetched ones
MergedRecordCached ==
  obs # <<>> =>
    \A c \in 1 .. Len(obs.calls) :
      (obs.calls[c].path = "merge" /\ obs.calls[c].phase = "done"
         /\ obs.cache = obs.calls[c].record) =>
        /\ obs.calls[c].fieldArray \subseteq obs.calls[c].fields
        /\ keys(obs.records[obs.observers[obs.calls[c].user].target])
             \subseteq keys(obs.records[obs.cache])

\* C25: for an anonymous event the write-back is never called, and no call
\* of observeUser for it fetches or caches
AnonymousNeverWritten ==
  obs # <<>> =>
    /\ \A e \in obs.written : ~obs.anonymous[e]
    /\ \A c \in 1 .. Len(obs.calls) :
         (obs.kind = "user" /\ obs.anonymous[obs.calls[c].event]) =>
           /\ obs.calls[c].path \in {"anonymous", "bound"}
           /\ obs.observers[c].target # 0 => obs.cache # obs.observers[c].target

\* C26: a value an event has set on its bound entity while the fetch of
\* another event was in flight is not replaced in the cache by what that
\* fetch returns
MutationNeverLost ==
  obs # <<>> =>
    \A c \in 1 .. Len(obs.calls) :
      (obs.calls[c].phase = "done" /\ obs.calls[c].overtaken
         /\ obs.cache = obs.calls[c].record) =>
        \A m \in obs.mutated :
          (m[3] # obs.calls[c].event /\ obs.records[obs.cache].data[m[1]] # absent) =>
            obs.records[obs.cache].data[m[1]] = m[2]

\* C27: the calls of observe for one event all return the same observer
BoundOnce ==
  obs # <<>> =>
    \A c, d \in 1 .. Len(obs.calls) :
      (obs.calls[c].event = obs.calls[d].event
         /\ obs.calls[c].phase = "done" /\ obs.calls[d].phase = "done") =>
        obs.calls[c].returned = obs.calls[d].returned

(***************************************************************************)
(* The representation returned by the combinators (C28, C29).              *)
(***************************************************************************)
\* the case table of plus, intersect and minus for one dimension, on the
\* subscopes s1 (receiver) and s2 (argument); minusOfExcludes is the cell of
\* minus for two exclude lists
caseTable(op, s1, s2, minusOfExcludes) ==
  LET inc1 == s1[1]
      exc1 == s1[2]
      inc2 == s2[1]
      exc2 == s2[2]
  IN CASE inc1 # null /\ inc2 # null ->
            (CASE op = "plus" -> <<Arr(union(inc1[1], inc2[1])), null>>
               [] op = "intersect" -> <<Arr(intersection(inc1[1], inc2[1])), null>>
               [] op = "minus" -> <<Arr(difference(inc1[1], inc2[1])), null>>)
       [] inc1 # null /\ inc2 = null ->
            (CASE op = "plus" -> <<null, Arr(difference(exc2[1], inc1[1]))>>
               [] op = "intersect" -> <<Arr(difference(inc1[1], exc2[1])), null>>
               [] op = "minus" -> <<Arr(intersection(inc1[1], exc2[1])), null>>)
       [] inc1 = null /\ inc2 # null ->
            (CASE op = "plus" -> <<null, Arr(difference(exc1[1], inc2[1]))>>
               [] op = "intersect" -> <<Arr(difference(inc2[1], exc1[1])), null>>
               [] op = "minus" -> <<null, Arr(union(inc2[1], exc1[1]))>>)
       [] inc1 = null /\ inc2 = null ->
            (CASE op = "plus" -> <<null, Arr(intersection(exc1[1], exc2[1]))>>
               [] op = "intersect" -> <<null, Arr(union(exc1[1], exc2[1]))>>
               [] op = "minus" -> minusOfExcludes)

\* the operations the case table covers
Combinators == {"plus", "minus", "intersect"}

\* C28 as stated: in every dimension plus, minus and intersect return the
\* representation of the case table, minus of two exclude lists returning
\* (null, difference(exc2, exc1))
CaseTableAsListed ==
  result.op \in Combinators =>
    \A index \in Dims :
      result.ctx.scope[index] =
        caseTable(result.op, A.scope[index], B.scope[index],
                  <<null, Arr(difference(B.scope[index][2][1], A.scope[index][2][1]))>>)

\* C28 amended: in every dimension plus, minus and intersect return the
\* representation of the case table, except that minus of two exclude lists
\* returns the include list (difference(exc2, exc1), null)
CaseTableReproduced ==
  result.op \in Combinators =>
    \A index \in Dims :
      result.ctx.scope[index] =
        caseTable(result.op, A.scope[index], B.scope[index],
                  <<Arr(difference(B.scope[index][2][1], A.scope[index][2][1])), null>>)

\* C28 witness: minus has answered two exclude lists in one dimension with a
\* non-empty include list
CaseTableReproducedWitness ==
  /\ result.op = "minus"
  /\ \E index \in Dims :
       /\ A.scope[index][1] = null
       /\ B.scope[index][1] = null
       /\ A.scope[index][2][1] # <<>>
       /\ result.ctx.scope[index][2] = null
       /\ result.ctx.scope[index][1][1] # <<>>

\* exactly one of includeIds / excludeIds of a subscope is non-null
wellFormed(scope) ==
  \A index \in Dims : (scope[index][1] = null) # (scope[index][2] = null)

\* C29: every subscope of a descriptor produced by inverse, plus, minus or
\* intersect from the well-formed operands A and B has exactly one of
\* includeIds / excludeIds non-null
WellFormednessPreserved ==
  (result.op = "inverse" \/ result.op \in Combinators) /\ wellFormed(A.scope) /\ wellFormed(B.scope)
    => wellFormed(result.ctx.scope)

\* ---------------------------------------------------------------------
\* Options with actions in the chain (C30)
\* ---------------------------------------------------------------------

RECURSIVE climb(_, _, _)
\* the command reached from c by following n parent links, 0 past a root
climb(cmds, c, n) ==
  IF n = 0 \/ c = 0 THEN c ELSE climb(cmds, cmds[c].parent, n - 1)

\* C31: after any sequence of command() and subcommand() calls no command is
\* reachable from itself by following parent links
Forest ==
  \A c \in 1 .. Len(commands) :
    \A n \in 1 .. Len(commands) : climb(commands, c, n) # c

\* ---------------------------------------------------------------------
\* What dispose leaves alone (C32)
\* ---------------------------------------------------------------------

\* C32: dispose() on a command, a second call included, leaves every entry
\* of the command map, the shortcut map, the shortcut list and the command
\* list that belongs to a command outside the subtree of the disposed
\* command as it was
DisposeFrame ==
  [][lastCall'.op = "dispose" =>
       \A d \in 1 .. Len(commands) :
         ~descends(commands, d, lastCall'.target, Len(commands)) =>
           /\ \A entry \in commandMap : entry[2] = d => entry \in commandMap'
           /\ \A entry \in app.shortcutMap : entry[2] = d => entry \in app'.shortcutMap
           /\ indexOf(app.commands, d) # 0 => indexOf(app'.commands, d) # 0
           /\ \A k \in 1 .. Len(app.shortcuts) :
                app.shortcuts[k].command = d => indexOf(app'.shortcuts, app.shortcuts[k]) # 0]_vars

====
